---- MODULE Spec2Model ----
(***************************************************************************)
(* Model of the laylapet-ai-assistant server (src/index.js): the intent    *)
(* extractor buildSearchTerms, the synonym table getTranslations, the      *)
(* scorer/filter smartFilter with calculateScore, the answer-grounding     *)
(* resolver extractProducts with the recentRecommendations map, and the    *)
(* POST /api/chat handler around them.                                     *)
(*                                                                         *)
(* JavaScript strings are modelled as sequences of characters, one         *)
(* one-character string per UTF-16 code unit.  The Turkish letters are     *)
(* written with a caret: "g^" is g-breve, "u^" u-umlaut, "s^" s-cedilla,   *)
(* "i^" dotless i, "o^" o-umlaut, "c^" c-cedilla (capitals "G^", ...).     *)
(***************************************************************************)
EXTENDS Integers, Sequences, FiniteSets, TLC

VARIABLES
    message,                \* rank pipeline: the raw customer message
    products,               \* rank pipeline: the catalog given to smartFilter
    searchTerms,            \* rank pipeline: result of buildSearchTerms
    filtered,               \* rank pipeline: result of smartFilter
    rankPc,                 \* rank pipeline: "extract" -> "rank" -> "done"
    recentRecommendations,  \* the Map of index.js:11, entries in insertion order
    recorded,               \* history variable: every id recorded per session
    lastResolve,            \* history variable: the last extractProducts call
    calls,                  \* number of extractProducts calls made so far
    productCache,           \* index.js:14, [isNull, value]
    cacheTime,              \* index.js:15, 0 for null
    now,                    \* Date.now(), always positive
    req,                    \* the POST /api/chat requests: locals, position, response
    cleared,                \* history variable: clear-cache served since the last valid chat request
    diversify               \* one diversifyProducts call: argument, locals, result

vars == <<message, products, searchTerms, filtered, rankPc,
          recentRecommendations, recorded, lastResolve, calls,
          productCache, cacheTime, now, req, cleared, diversify>>

----------------------------------------------------------------------------
(* String primitives of JavaScript, on sequences of characters.            *)

\* The capital letters String.prototype.toLowerCase folds (those the inputs use).
UpperCase == <<"A","B","C","D","E","F","G","H","I","J","K","L","M","N","O","P","Q",
               "R","S","T","U","V","W","X","Y","Z","G^","U^","S^","O^","C^">>
LowerCase == <<"a","b","c","d","e","f","g","h","i","j","k","l","m","n","o","p","q",
               "r","s","t","u","v","w","x","y","z","g^","u^","s^","o^","c^">>

toLowerChar(c) ==
    IF \E i \in 1..Len(UpperCase) : UpperCase[i] = c
    THEN LowerCase[CHOOSE i \in 1..Len(UpperCase) : UpperCase[i] = c]
    ELSE c

\* String.prototype.toLowerCase
toLowerCase(s) == [i \in 1..Len(s) |-> toLowerChar(s[i])]

\* s.startsWith(t, i - 1): t occurs in s at (1-based) position i
occursAt(s, t, i) ==
    /\ i >= 1
    /\ i + Len(t) - 1 <= Len(s)
    /\ \A k \in 1..Len(t) : s[i + k - 1] = t[k]

\* String.prototype.includes: t is a contiguous substring of s
includes(s, t) ==
    \* str and sub are the values of s and t, computed once
    \E str \in {s} : \E sub \in {t} :
        \E i \in 1..(Len(str) - Len(sub) + 1) : occursAt(str, sub, i)

\* Array.prototype.includes on an array of strings
arrIncludes(arr, x) == \E i \in 1..Len(arr) : arr[i] = x

\* Array.prototype.join(' ')
RECURSIVE joinSpace(_)
joinSpace(arr) ==
    IF Len(arr) = 0 THEN <<>>
    ELSE IF Len(arr) = 1 THEN arr[1]
    ELSE arr[1] \o <<" ">> \o joinSpace(Tail(arr))

\* String.prototype.split(' '): the pieces between single spaces, empty ones kept
RECURSIVE splitSpace(_)
splitSpace(s) ==
    IF \E i \in 1..Len(s) : s[i] = " "
    THEN LET i == CHOOSE j \in 1..Len(s) :
                     s[j] = " " /\ \A k \in 1..(j - 1) : s[k] # " "
         IN  <<SubSeq(s, 1, i - 1)>> \o splitSpace(SubSeq(s, i + 1, Len(s)))
    ELSE <<s>>

\* [...new Set(arr)]: first occurrences, in order
RECURSIVE dedupe(_)
dedupe(arr) ==
    IF Len(arr) = 0 THEN <<>>
    ELSE LET init == dedupe(SubSeq(arr, 1, Len(arr) - 1))
             x    == arr[Len(arr)]
         IN  IF arrIncludes(init, x) THEN init ELSE Append(init, x)

\* number of the words of arr that text includes (forEach with a counter)
countIncluded(text, arr) == Len(SelectSeq(arr, LAMBDA w : includes(text, w)))

\* Array.prototype.slice(-n): the last n elements
sliceLast(arr, n) ==
    IF Len(arr) <= n THEN arr ELSE SubSeq(arr, Len(arr) - n + 1, Len(arr))

\* slice that ignores its end index
sliceFirstAll(arr, n) == arr

\* Array.prototype.slice(0, n): the first n elements
sliceFirst(arr, n) ==
    IF Len(arr) <= n THEN arr ELSE SubSeq(arr, 1, n)

----------------------------------------------------------------------------
(* The string literals of index.js and of the modelled inputs, each as its  *)
(* sequence of characters, named W_<text>.  In a name a capital letter      *)
(* stands for the Turkish letter (W_tahIl is "tahi^l", W_kOpek is           *)
(* "ko^pek"); T_ marks a word whose first letter is a capital; _dash_ is    *)
(* "-", _ is a space, _comma is ",", _slash_ is "/".                        *)

\* BEGIN string literals
W_Canta == <<"c^","a","n","t","a">>
W_Cok == <<"c^","o","k">>
W_Cok_iyi == <<"c^","o","k"," ","i","y","i">>
W_OdUl == <<"o^","d","u^","l">>
W_Ordek == <<"o^","r","d","e","k">>
W_Ordekli == <<"o^","r","d","e","k","l","i">>
W_Sampuan == <<"s^","a","m","p","u","a","n">>
W_Su == <<"s^","u">>
W_T_acme == <<"A","c","m","e">>
W_T_alfa == <<"A","l","f","a">>
W_T_alfa_comma_T_beta_comma_T_gama_comma_T_delta_ve_T_kolonya_4711 == <<"A","l","f","a",","," ","B","e","t","a",","," ","G","a","m","a",","," ","D","e","l","t","a"," ","v","e"," ","K","o","l","o","n","y","a"," ","4","7","1","1">>
W_T_beta == <<"B","e","t","a">>
W_T_bir_hata_oluStu_colon_ == <<"B","i","r"," ","h","a","t","a"," ","o","l","u","s^","t","u",":"," ">>
W_T_bu_kriterlere_uygun_UrUn_bulamadIm == <<"B","u"," ","k","r","i","t","e","r","l","e","r","e"," ","u","y","g","u","n"," ","u^","r","u^","n"," ","b","u","l","a","m","a","d","i^","m">>
W_T_chicken_T_cat_T_food == <<"C","h","i","c","k","e","n"," ","C","a","t"," ","F","o","o","d">>
W_T_delta == <<"D","e","l","t","a">>
W_T_fish_T_cat_T_food == <<"F","i","s","h"," ","C","a","t"," ","F","o","o","d">>
W_T_gama == <<"G","a","m","a">>
W_T_kOpek_T_tasmasI == <<"K","o^","p","e","k"," ","T","a","s","m","a","s","i^">>
W_T_kedi_T_mamasI == <<"K","e","d","i"," ","M","a","m","a","s","i^">>
W_T_kedi_T_mamasI_T_fish == <<"K","e","d","i"," ","M","a","m","a","s","i^"," ","F","i","s","h">>
W_T_kolonya_4711 == <<"K","o","l","o","n","y","a"," ","4","7","1","1">>
W_T_kolonya_4711_ya_da_T_alfa == <<"K","o","l","o","n","y","a"," ","4","7","1","1"," ","y","a"," ","d","a"," ","A","l","f","a">>
W_T_mama_ == <<"M","a","m","a"," ">>
W_T_mama_01_ya_da_T_mama_13 == <<"M","a","m","a"," ","0","1"," ","y","a"," ","d","a"," ","M","a","m","a"," ","1","3">>
W_T_mesaj_veya_shop_domain_eksik == <<"M","e","s","a","j"," ","v","e","y","a"," ","s","h","o","p"," ","d","o","m","a","i","n"," ","e","k","s","i","k">>
W_T_not_T_found == <<"N","o","t"," ","F","o","u","n","d">>
W_T_premium_T_mama == <<"P","r","e","m","i","u","m"," ","M","a","m","a">>
W_T_rate_limit_reached == <<"R","a","t","e"," ","l","i","m","i","t"," ","r","e","a","c","h","e","d">>
W_T_royal_T_canin == <<"R","o","y","a","l"," ","C","a","n","i","n">>
W_T_royal_T_canin_T_kedi_T_mamasI_T_tavuklu == <<"R","o","y","a","l"," ","C","a","n","i","n"," ","K","e","d","i"," ","M","a","m","a","s","i^"," ","T","a","v","u","k","l","u">>
W_T_royal_T_canin_T_kedi_T_mamasI_T_tavuklu_comma_T_fish_T_cat_T_food_ya_da_T_kedi_T_mamasI_T_fish == <<"R","o","y","a","l"," ","C","a","n","i","n"," ","K","e","d","i"," ","M","a","m","a","s","i^"," ","T","a","v","u","k","l","u",","," ","F","i","s","h"," ","C","a","t"," ","F","o","o","d"," ","y","a"," ","d","a"," ","K","e","d","i"," ","M","a","m","a","s","i^"," ","F","i","s","h">>
W_T_shopify_hatasI_colon_ == <<"S","h","o","p","i","f","y"," ","h","a","t","a","s","i^",":"," ">>
W_T_tavuksuz_T_royal_T_canin_kedi_mamasI == <<"T","a","v","u","k","s","u","z"," ","R","o","y","a","l"," ","C","a","n","i","n"," ","k","e","d","i"," ","m","a","m","a","s","i^">>
W_T_trixie == <<"T","r","i","x","i","e">>
W_T_uygun_bir_urun_bulamadim == <<"U","y","g","u","n"," ","b","i","r"," ","u","r","u","n"," ","b","u","l","a","m","a","d","i","m">>
W_UrUn == <<"u^","r","u^","n">>
W__dot_50 == <<".","5","0">>
W__hatasI_colon_ == <<" ","h","a","t","a","s","i^",":"," ">>
W__yanIt_vermedi == <<" ","y","a","n","i^","t"," ","v","e","r","m","e","d","i">>
W_adult == <<"a","d","u","l","t">>
W_aksesuar == <<"a","k","s","e","s","u","a","r">>
W_alfa == <<"a","l","f","a">>
W_arpa == <<"a","r","p","a">>
W_arpalI == <<"a","r","p","a","l","i^">>
W_aylIk == <<"a","y","l","i^","k">>
W_aylik == <<"a","y","l","i","k">>
W_az == <<"a","z">>
W_az_tavuk == <<"a","z"," ","t","a","v","u","k">>
W_bObrek == <<"b","o^","b","r","e","k">>
W_bakIm == <<"b","a","k","i^","m">>
W_bak__slash_products_slash_alfa == <<"b","a","k"," ","/","p","r","o","d","u","c","t","s","/","a","l","f","a">>
W_balIk == <<"b","a","l","i^","k">>
W_balIklI == <<"b","a","l","i^","k","l","i^">>
W_balik == <<"b","a","l","i","k">>
W_barley == <<"b","a","r","l","e","y">>
W_beef == <<"b","e","e","f">>
W_beta == <<"b","e","t","a">>
W_bir == <<"b","i","r">>
W_bobrek == <<"b","o","b","r","e","k">>
W_bu == <<"b","u">>
W_buGday == <<"b","u","g^","d","a","y">>
W_buGdaylI == <<"b","u","g^","d","a","y","l","i^">>
W_canin == <<"c","a","n","i","n">>
W_carrier == <<"c","a","r","r","i","e","r">>
W_cat == <<"c","a","t">>
W_cereal == <<"c","e","r","e","a","l">>
W_cheese == <<"c","h","e","e","s","e">>
W_chicken == <<"c","h","i","c","k","e","n">>
W_chicken_dash_cat_dash_food == <<"c","h","i","c","k","e","n","-","c","a","t","-","f","o","o","d">>
W_chicken_yok == <<"c","h","i","c","k","e","n"," ","y","o","k">>
W_clipper == <<"c","l","i","p","p","e","r">>
W_coat == <<"c","o","a","t">>
W_collar == <<"c","o","l","l","a","r">>
W_corn == <<"c","o","r","n">>
W_cream == <<"c","r","e","a","m">>
W_dUSUk == <<"d","u^","s^","u^","k">>
W_dairy == <<"d","a","i","r","y">>
W_dairy_dash_free == <<"d","a","i","r","y","-","f","r","e","e">>
W_dairy_free == <<"d","a","i","r","y"," ","f","r","e","e">>
W_dana == <<"d","a","n","a">>
W_deGil == <<"d","e","g^","i","l">>
W_degil == <<"d","e","g","i","l">>
W_delta == <<"d","e","l","t","a">>
W_dental == <<"d","e","n","t","a","l">>
W_deri == <<"d","e","r","i">>
W_diS == <<"d","i","s^">>
W_dis == <<"d","i","s">>
W_domuz == <<"d","o","m","u","z">>
W_domuzlu == <<"d","o","m","u","z","l","u">>
W_dry == <<"d","r","y">>
W_duck == <<"d","u","c","k">>
W_dusuk == <<"d","u","s","u","k">>
W_ear == <<"e","a","r">>
W_egg == <<"e","g","g">>
W_elderly == <<"e","l","d","e","r","l","y">>
W_empty == <<>>
W_fetch_failed == <<"f","e","t","c","h"," ","f","a","i","l","e","d">>
W_fish == <<"f","i","s","h">>
W_fish_dash_cat_dash_food == <<"f","i","s","h","-","c","a","t","-","f","o","o","d">>
W_food == <<"f","o","o","d">>
W_gUzel == <<"g","u^","z","e","l">>
W_gama == <<"g","a","m","a">>
W_gezdirme == <<"g","e","z","d","i","r","m","e">>
W_glUten == <<"g","l","u^","t","e","n">>
W_gluten == <<"g","l","u","t","e","n">>
W_gluten_dash_free == <<"g","l","u","t","e","n","-","f","r","e","e">>
W_gluten_free == <<"g","l","u","t","e","n"," ","f","r","e","e">>
W_glutensiz == <<"g","l","u","t","e","n","s","i","z">>
W_grain == <<"g","r","a","i","n">>
W_grain_dash_free == <<"g","r","a","i","n","-","f","r","e","e">>
W_grain_free == <<"g","r","a","i","n"," ","f","r","e","e">>
W_grainfree == <<"g","r","a","i","n","f","r","e","e">>
W_hariC == <<"h","a","r","i","c^">>
W_haric == <<"h","a","r","i","c">>
W_hassas == <<"h","a","s","s","a","s">>
W_hijyen == <<"h","i","j","y","e","n">>
W_hindi == <<"h","i","n","d","i">>
W_hindili == <<"h","i","n","d","i","l","i">>
W_iCerik == <<"i","c^","e","r","i","k">>
W_iCermesin == <<"i","c^","e","r","m","e","s","i","n">>
W_iCin == <<"i","c^","i","n">>
W_icerik == <<"i","c","e","r","i","k">>
W_icermesin == <<"i","c","e","r","m","e","s","i","n">>
W_idrar == <<"i","d","r","a","r">>
W_ile == <<"i","l","e">>
W_istemem == <<"i","s","t","e","m","e","m">>
W_istemiyorum == <<"i","s","t","e","m","i","y","o","r","u","m">>
W_iyi == <<"i","y","i">>
W_junior == <<"j","u","n","i","o","r">>
W_kIsIr == <<"k","i^","s","i^","r">>
W_kOpek == <<"k","o^","p","e","k">>
W_kedi == <<"k","e","d","i">>
W_kedi_dash_mamasi_dash_fish == <<"k","e","d","i","-","m","a","m","a","s","i","-","f","i","s","h">>
W_kedi_mamasI_comma_tavuksuz == <<"k","e","d","i"," ","m","a","m","a","s","i^",","," ","t","a","v","u","k","s","u","z">>
W_kibble == <<"k","i","b","b","l","e">>
W_kidney == <<"k","i","d","n","e","y">>
W_kilo == <<"k","i","l","o">>
W_kisir == <<"k","i","s","i","r">>
W_kitten == <<"k","i","t","t","e","n">>
W_konserve == <<"k","o","n","s","e","r","v","e">>
W_kopek == <<"k","o","p","e","k">>
W_kopek_dash_tasmasi == <<"k","o","p","e","k","-","t","a","s","m","a","s","i">>
W_krem == <<"k","r","e","m">>
W_kuS == <<"k","u","s^">>
W_kulak == <<"k","u","l","a","k">>
W_kum == <<"k","u","m">>
W_kuru == <<"k","u","r","u">>
W_kus == <<"k","u","s">>
W_kuzu == <<"k","u","z","u">>
W_kuzulu == <<"k","u","z","u","l","u">>
W_lamb == <<"l","a","m","b">>
W_lazIm == <<"l","a","z","i^","m">>
W_lazim == <<"l","a","z","i","m">>
W_leash == <<"l","e","a","s","h">>
W_light == <<"l","i","g","h","t">>
W_litter == <<"l","i","t","t","e","r">>
W_low == <<"l","o","w">>
W_mI == <<"m","i^">>
W_mIsIr == <<"m","i^","s","i^","r">>
W_mIsIrlI == <<"m","i^","s","i^","r","l","i^">>
W_maize == <<"m","a","i","z","e">>
W_makas == <<"m","a","k","a","s">>
W_mama == <<"m","a","m","a">>
W_mama_dash_ == <<"m","a","m","a","-">>
W_mature == <<"m","a","t","u","r","e">>
W_merhaba == <<"m","e","r","h","a","b","a">>
W_mi == <<"m","i">>
W_milk == <<"m","i","l","k">>
W_minimum == <<"m","i","n","i","m","u","m">>
W_mnama == <<"m","n","a","m","a">>
W_n10 == <<"1","0">>
W_n100_dot_00 == <<"1","0","0",".","0","0">>
W_n101 == <<"1","0","1">>
W_n102 == <<"1","0","2">>
W_n103 == <<"1","0","3">>
W_n104 == <<"1","0","4">>
W_n105 == <<"1","0","5">>
W_n106 == <<"1","0","6">>
W_n10_dot_5 == <<"1","0",".","5">>
W_n10_dot_50 == <<"1","0",".","5","0">>
W_n201 == <<"2","0","1">>
W_n202 == <<"2","0","2">>
W_n203 == <<"2","0","3">>
W_n204 == <<"2","0","4">>
W_n25 == <<"2","5">>
W_n250 == <<"2","5","0">>
W_n2_yaSInda_kOpek_tasma == <<"2"," ","y","a","s^","i^","n","d","a"," ","k","o^","p","e","k"," ","t","a","s","m","a">>
W_n4711 == <<"4","7","1","1">>
W_n5 == <<"5">>
W_n7_dot_25 == <<"7",".","2","5">>
W_n7plus == <<"7","+">>
W_n9_dot_90 == <<"9",".","9","0">>
W_nail == <<"n","a","i","l">>
W_ne == <<"n","e">>
W_nedir == <<"n","e","d","i","r">>
W_neutered == <<"n","e","u","t","e","r","e","d">>
W_o == <<"o">>
W_oat == <<"o","a","t">>
W_obez == <<"o","b","e","z">>
W_odul == <<"o","d","u","l">>
W_olmadan == <<"o","l","m","a","d","a","n">>
W_oyuncak == <<"o","y","u","n","c","a","k">>
W_pahalI == <<"p","a","h","a","l","i^">>
W_patates == <<"p","a","t","a","t","e","s">>
W_patatesli == <<"p","a","t","a","t","e","s","l","i">>
W_peynir == <<"p","e","y","n","i","r">>
W_peynirli == <<"p","e","y","n","i","r","l","i">>
W_pirinC == <<"p","i","r","i","n","c^">>
W_pirinCli == <<"p","i","r","i","n","c^","l","i">>
W_pork == <<"p","o","r","k">>
W_potato == <<"p","o","t","a","t","o">>
W_pouch == <<"p","o","u","c","h">>
W_poultry == <<"p","o","u","l","t","r","y">>
W_premium_dash_mama == <<"p","r","e","m","i","u","m","-","m","a","m","a">>
W_puppy == <<"p","u","p","p","y">>
W_renal == <<"r","e","n","a","l">>
W_rice == <<"r","i","c","e">>
W_royal_dash_canin_dash_kedi_dash_tavuklu == <<"r","o","y","a","l","-","c","a","n","i","n","-","k","e","d","i","-","t","a","v","u","k","l","u">>
W_sIGIr == <<"s","i^","g^","i^","r">>
W_sIGIrlI == <<"s","i^","g^","i^","r","l","i^">>
W_sIz == <<"s","i^","z">>
W_sUt == <<"s","u^","t">>
W_sUt_UrUnU == <<"s","u^","t"," ","u^","r","u^","n","u^">>
W_sUtlU == <<"s","u^","t","l","u^">>
W_sUz == <<"s","u^","z">>
W_salmon == <<"s","a","l","m","o","n">>
W_sampuan == <<"s","a","m","p","u","a","n">>
W_senior == <<"s","e","n","i","o","r">>
W_sensitive == <<"s","e","n","s","i","t","i","v","e">>
W_shampoo == <<"s","h","a","m","p","o","o">>
W_siz == <<"s","i","z">>
W_skin == <<"s","k","i","n">>
W_somon == <<"s","o","m","o","n">>
W_somonlu == <<"s","o","m","o","n","l","u">>
W_soy == <<"s","o","y">>
W_soya == <<"s","o","y","a">>
W_soyalI == <<"s","o","y","a","l","i^">>
W_soybean == <<"s","o","y","b","e","a","n">>
W_steril == <<"s","t","e","r","i","l">>
W_sterilised == <<"s","t","e","r","i","l","i","s","e","d">>
W_suz == <<"s","u","z">>
W_tIrnak == <<"t","i^","r","n","a","k">>
W_tUy == <<"t","u^","y">>
W_taSIma == <<"t","a","s^","i^","m","a">>
W_tahIl == <<"t","a","h","i^","l">>
W_tahIllI == <<"t","a","h","i^","l","l","i^">>
W_tahIlsIz == <<"t","a","h","i^","l","s","i^","z">>
W_tahilsiz == <<"t","a","h","i","l","s","i","z">>
W_tahilsiz_corn == <<"t","a","h","i","l","s","i","z"," ","c","o","r","n">>
W_tasima == <<"t","a","s","i","m","a">>
W_tasma == <<"t","a","s","m","a">>
W_tavuk == <<"t","a","v","u","k">>
W_tavuk_etli_kuru_mama == <<"t","a","v","u","k"," ","e","t","l","i"," ","k","u","r","u"," ","m","a","m","a">>
W_tavuklu == <<"t","a","v","u","k","l","u">>
W_tirnak == <<"t","i","r","n","a","k">>
W_ton == <<"t","o","n">>
W_tooth == <<"t","o","o","t","h">>
W_treat == <<"t","r","e","a","t">>
W_tuna == <<"t","u","n","a">>
W_turkey == <<"t","u","r","k","e","y">>
W_tuvalet == <<"t","u","v","a","l","e","t">>
W_tuy == <<"t","u","y">>
W_ucuz == <<"u","c","u","z">>
W_urinary == <<"u","r","i","n","a","r","y">>
W_urun == <<"u","r","u","n">>
W_var == <<"v","a","r">>
W_var_mi == <<"v","a","r"," ","m","i">>
W_varmI == <<"v","a","r","m","i^">>
W_ve == <<"v","e">>
W_weight == <<"w","e","i","g","h","t">>
W_wet == <<"w","e","t">>
W_wheat == <<"w","h","e","a","t">>
W_wheat_yok_tahilsiz == <<"w","h","e","a","t"," ","y","o","k"," ","t","a","h","i","l","s","i","z">>
W_yaS == <<"y","a","s^">>
W_yaSInda == <<"y","a","s^","i^","n","d","a">>
W_yaS_mama == <<"y","a","s^"," ","m","a","m","a">>
W_yaSlI == <<"y","a","s^","l","i^">>
W_yas == <<"y","a","s">>
W_yas_mama == <<"y","a","s"," ","m","a","m","a">>
W_yasinda == <<"y","a","s","i","n","d","a">>
W_yasli == <<"y","a","s","l","i">>
W_yavru == <<"y","a","v","r","u">>
W_yetiSkin == <<"y","e","t","i","s^","k","i","n">>
W_yoGurt == <<"y","o","g^","u","r","t">>
W_yoGurtlu == <<"y","o","g^","u","r","t","l","u">>
W_yogurt == <<"y","o","g","u","r","t">>
W_yok == <<"y","o","k">>
W_yulaf == <<"y","u","l","a","f">>
W_yulaflI == <<"y","u","l","a","f","l","i^">>
W_yumurta == <<"y","u","m","u","r","t","a">>
W_yumurtalI == <<"y","u","m","u","r","t","a","l","i^">>
\* END string literals

----------------------------------------------------------------------------
(* getTranslations (index.js:546-593): the bilingual ingredient table.     *)

getTranslations(ingredient) ==
    LET k == toLowerCase(ingredient) IN
    CASE k = W_tavuk   -> <<W_chicken, W_tavuklu, W_poultry>>
      [] k = W_chicken -> <<W_tavuk, W_tavuklu>>
      [] k = W_balIk   -> <<W_fish, W_balIklI, W_salmon, W_somon, W_tuna, W_ton>>
      [] k = W_fish    -> <<W_balIk, W_balIklI>>
      [] k = W_sIGIr   -> <<W_beef, W_dana, W_sIGIrlI>>
      [] k = W_beef    -> <<W_sIGIr, W_dana>>
      [] k = W_kuzu    -> <<W_lamb, W_kuzulu>>
      [] k = W_lamb    -> <<W_kuzu, W_kuzulu>>
      [] k = W_hindi   -> <<W_turkey, W_hindili>>
      [] k = W_turkey  -> <<W_hindi, W_hindili>>
      [] k = W_Ordek   -> <<W_duck, W_Ordekli>>
      [] k = W_domuz   -> <<W_pork, W_domuzlu>>
      [] k = W_tahIl   -> <<W_grain, W_tahIllI, W_cereal>>
      [] k = W_grain   -> <<W_tahIl, W_tahIllI>>
      [] k = W_buGday  -> <<W_wheat, W_buGdaylI>>
      [] k = W_wheat   -> <<W_buGday, W_buGdaylI>>
      [] k = W_mIsIr   -> <<W_corn, W_mIsIrlI, W_maize>>
      [] k = W_corn    -> <<W_mIsIr, W_mIsIrlI>>
      [] k = W_pirinC  -> <<W_rice, W_pirinCli>>
      [] k = W_rice    -> <<W_pirinC, W_pirinCli>>
      [] k = W_patates -> <<W_potato, W_patatesli>>
      [] k = W_potato  -> <<W_patates, W_patatesli>>
      [] k = W_soya    -> <<W_soy, W_soyalI, W_soybean>>
      [] k = W_soy     -> <<W_soya, W_soyalI>>
      [] k = W_arpa    -> <<W_barley, W_arpalI>>
      [] k = W_yulaf   -> <<W_oat, W_yulaflI>>
      [] k = W_sUt     -> <<W_milk, W_dairy, W_sUtlU>>
      [] k = W_milk    -> <<W_sUt, W_sUtlU>>
      [] k = W_dairy   -> <<W_sUt, W_sUt_UrUnU>>
      [] k = W_peynir  -> <<W_cheese, W_peynirli>>
      [] k = W_yoGurt  -> <<W_yogurt, W_yoGurtlu>>
      [] k = W_gluten  -> <<W_glUten>>
      [] k = W_glUten  -> <<W_gluten>>
      [] k = W_yumurta -> <<W_egg, W_yumurtalI>>
      [] k = W_egg     -> <<W_yumurta, W_yumurtalI>>
      [] OTHER         -> <<>>

----------------------------------------------------------------------------
(* The regular expressions of buildSearchTerms (index.js:398, 411-414, 439, *)
(* 479).  The message is lowercased before matching, so the i flag adds no  *)
(* match on the modelled alphabet.                                          *)

AsciiWordChars ==
    {"a","b","c","d","e","f","g","h","i","j","k","l","m","n","o","p","q","r","s","t",
     "u","v","w","x","y","z","A","B","C","D","E","F","G","H","I","J","K","L","M","N",
     "O","P","Q","R","S","T","U","V","W","X","Y","Z","0","1","2","3","4","5","6","7",
     "8","9","_"}

TurkishChars == {"g^","u^","s^","i^","o^","c^","G^","U^","S^","I^","O^","C^"}

Digits == <<"0","1","2","3","4","5","6","7","8","9">>

\* the class [\w g^u^s^i^o^c^ G^U^S^I^O^C^] of suffixPattern and negativeRegex
isWordChar == AsciiWordChars \cup TurkishChars

\* the class [\\w g^u^...] of lowContentRegex: in a regex literal "\\" is a
\* backslash and "w" the letter w, so the class is backslash, w (W under the
\* i flag) and the Turkish letters, not \w
isLowContentChar == {"\\", "w", "W"} \cup TurkishChars

\* \s (the modelled alphabet has no other white space)
isSpace == {" "}

\* \d
isDigit == {Digits[d] : d \in 1..10}

\* length of the longest run of characters of a class that starts at position i
runLen(s, i, class) ==
    CHOOSE n \in 0..(Len(s) - i + 1) :
        /\ \A k \in 0..(n - 1) : s[i + k] \in class
        /\ (i + n > Len(s) \/ s[i + n] \notin class)

\* some word of an alternation (w1|w2|...) occurs at position i
anyOccursAt(s, alts, i) == \E a \in 1..Len(alts) : occursAt(s, alts[a], i)

\* the first alternative that occurs at position i
firstOccurringAt(s, alts, i) ==
    alts[CHOOSE a \in 1..Len(alts) :
            occursAt(s, alts[a], i) /\ \A b \in 1..(a - 1) : ~occursAt(s, alts[b], i)]

minOf(set) == CHOOSE x \in set : \A y \in set : x <= y
maxOf(set) == CHOOSE x \in set : \A y \in set : x >= y

suffixes == <<W_sIz, W_siz, W_suz, W_sUz>>

negativeWords == <<W_yok, W_olmadan, W_iCermesin, W_icermesin, W_hariC, W_haric,
                   W_istemiyorum, W_istemem, W_deGil, W_degil>>

lowWords == <<W_az, W_dUSUk, W_dusuk, W_low, W_minimum>>

ageUnits == <<W_yaS, W_yas, W_yaSInda, W_yasinda, W_aylIk, W_aylik>>

\* suffixPattern at start i: the lengths n >= 3 of group 1 after which a suffix follows
suffixStemLens(msg, i) ==
    {n \in 3..runLen(msg, i, isWordChar) : anyOccursAt(msg, suffixes, i + n)}

\* the while/exec loop of index.js:401-408: group 1 of every match, left to right;
\* group 1 is greedy, and the next search starts where the match ended
RECURSIVE suffixCaptures(_, _)
suffixCaptures(msg, from) ==
    LET starts == {i \in from..Len(msg) : suffixStemLens(msg, i) # {}} IN
    IF starts = {} THEN <<>>
    ELSE LET i == minOf(starts)
             n == maxOf(suffixStemLens(msg, i))
             e == i + n + Len(firstOccurringAt(msg, suffixes, i + n))
         IN  <<SubSeq(msg, i, i + n - 1)>> \o suffixCaptures(msg, e)

\* negativeRegex at start i: the lengths n >= 3 of group 1 after which, past \s*,
\* a negative word follows
negativeStemLens(msg, i) ==
    {n \in 3..runLen(msg, i, isWordChar) :
        \E k \in 0..runLen(msg, i + n, isSpace) : anyOccursAt(msg, negativeWords, i + n + k)}

\* the while/exec loop of index.js:416-425 before its stop-word test
RECURSIVE negativeCaptures(_, _)
negativeCaptures(msg, from) ==
    LET starts == {i \in from..Len(msg) : negativeStemLens(msg, i) # {}} IN
    IF starts = {} THEN <<>>
    ELSE LET i == minOf(starts)
             n == maxOf(negativeStemLens(msg, i))
             k == maxOf({j \in 0..runLen(msg, i + n, isSpace) :
                            anyOccursAt(msg, negativeWords, i + n + j)})
             e == i + n + k + Len(firstOccurringAt(msg, negativeWords, i + n + k))
         IN  <<SubSeq(msg, i, i + n - 1)>> \o negativeCaptures(msg, e)

\* lowContentRegex at start i: a quantity word, \s+, then at least 3 class characters
lowContentAt(msg, i) ==
    /\ anyOccursAt(msg, lowWords, i)
    /\ LET j == i + Len(firstOccurringAt(msg, lowWords, i))
           k == runLen(msg, j, isSpace)
       IN  k >= 1 /\ runLen(msg, j + k, isLowContentChar) >= 3

\* the while/exec loop of index.js:440-447 before its "icerik" test: group 2
RECURSIVE lowContentCaptures(_, _)
lowContentCaptures(msg, from) ==
    LET starts == {i \in from..Len(msg) : lowContentAt(msg, i)} IN
    IF starts = {} THEN <<>>
    ELSE LET i == minOf(starts)
             j == i + Len(firstOccurringAt(msg, lowWords, i))
             k == runLen(msg, j, isSpace)
             n == runLen(msg, j + k, isLowContentChar)
         IN  <<SubSeq(msg, j + k, j + k + n - 1)>> \o lowContentCaptures(msg, j + k + n)

\* parseInt of a run of digits
RECURSIVE parseInt(_)
parseInt(ds) ==
    IF Len(ds) = 0 THEN 0
    ELSE 10 * parseInt(SubSeq(ds, 1, Len(ds) - 1))
         + ((CHOOSE d \in 1..10 : Digits[d] = ds[Len(ds)]) - 1)

\* msg.match(/(\d+)\s*(yas^|yas|...)/) at start i
ageMatchAt(msg, i) ==
    /\ i <= Len(msg) /\ msg[i] \in isDigit
    /\ LET n == runLen(msg, i, isDigit)
           k == runLen(msg, i + n, isSpace)
       IN  anyOccursAt(msg, ageUnits, i + n + k)

\* the leftmost match's group 1 as a sequence holding the number, <<>> for null
ageMatch(msg) ==
    LET starts == {i \in 1..Len(msg) : ageMatchAt(msg, i)} IN
    IF starts = {} THEN <<>>
    ELSE LET i == minOf(starts)
         IN  <<parseInt(SubSeq(msg, i, i + runLen(msg, i, isDigit) - 1))>>

\* each captured ingredient followed by its translations (index.js:404-406,
\* 421-423, 443-445)
RECURSIVE withTranslations(_)
withTranslations(captures) ==
    IF Len(captures) = 0 THEN <<>>
    ELSE <<toLowerCase(captures[1])>> \o getTranslations(toLowerCase(captures[1]))
         \o withTranslations(Tail(captures))

----------------------------------------------------------------------------
(* buildSearchTerms (index.js:343-543).  null is modelled as the empty      *)
(* string <<>>: the callers only test terms.animal and terms.category for   *)
(* truthiness.                                                              *)

\* stopWords of the negative-phrase loop (index.js:418)
negativeStopWords == <<W_bir, W_bu, W_Su, W_ne, W_var, W_mi, W_mI, W_iCin, W_UrUn, W_urun>>

\* stopWords of the brand detection (index.js:458-462)
stopWords == <<W_var, W_mi, W_mI, W_iCin, W_lazim, W_lazIm, W_ne, W_nedir, W_varmI,
               W_var_mi, W_bir, W_bu, W_Su, W_o, W_ve, W_ile, W_Cok, W_az, W_iyi,
               W_gUzel, W_ucuz, W_pahalI, W_mnama>>

\* categoryWords (index.js:464-467)
categoryWords == <<W_kedi, W_kOpek, W_kopek, W_mama, W_OdUl, W_odul, W_oyuncak, W_yaS,
                   W_yas, W_kuS, W_kus, W_treat, W_food, W_kuru>>

buildSearchTerms(msgIn) ==
    LET msg == toLowerCase(msgIn)
        has(w) == includes(msg, w)
        \* index.js:354-363
        animal ==
            IF has(W_kedi) THEN W_kedi
            ELSE IF has(W_kOpek) \/ has(W_kopek) THEN W_kOpek
            ELSE IF has(W_kuS) \/ has(W_kus) THEN W_kuS
            ELSE IF has(W_balIk) \/ has(W_balik) THEN W_balIk
            ELSE <<>>
        \* index.js:365-390
        cat ==
            IF has(W_mama) THEN [category |-> W_mama, freeText |-> <<>>]
            ELSE IF has(W_OdUl) \/ has(W_odul) \/ has(W_treat)
                THEN [category |-> W_OdUl, freeText |-> <<>>]
            ELSE IF has(W_oyuncak) THEN [category |-> W_oyuncak, freeText |-> <<>>]
            ELSE IF has(W_krem) \/ has(W_Sampuan) \/ has(W_sampuan)
                THEN [category |-> W_bakIm,
                      freeText |-> (IF has(W_krem) THEN <<W_krem, W_cream>> ELSE <<>>)
                                   \o (IF has(W_Sampuan) \/ has(W_sampuan)
                                       THEN <<W_Sampuan, W_shampoo>> ELSE <<>>)]
            ELSE IF has(W_tasma) \/ has(W_gezdirme)
                THEN [category |-> W_aksesuar,
                      freeText |-> <<W_tasma, W_gezdirme, W_leash, W_collar>>]
            ELSE IF has(W_kum) \/ has(W_tuvalet)
                THEN [category |-> W_hijyen, freeText |-> <<W_kum, W_litter, W_tuvalet>>]
            ELSE IF has(W_tIrnak) \/ has(W_tirnak)
                THEN [category |-> <<>>, freeText |-> <<W_tIrnak, W_nail, W_clipper, W_makas>>]
            ELSE IF has(W_diS) \/ has(W_dis)
                THEN [category |-> <<>>, freeText |-> <<W_diS, W_dental, W_tooth>>]
            ELSE IF has(W_kulak)
                THEN [category |-> <<>>, freeText |-> <<W_kulak, W_ear>>]
            ELSE IF has(W_taSIma) \/ has(W_tasima) \/ has(W_Canta)
                THEN [category |-> <<>>, freeText |-> <<W_taSIma, W_carrier, W_Canta>>]
            ELSE [category |-> <<>>, freeText |-> <<>>]
        \* index.js:397-408
        bySuffix ==
            withTranslations(SelectSeq(suffixCaptures(msg, 1), LAMBDA g : Len(g) > 2))
        \* index.js:410-425
        byNegative ==
            withTranslations(SelectSeq(negativeCaptures(msg, 1),
                LAMBDA g : Len(g) > 2 /\ ~arrIncludes(negativeStopWords, toLowerCase(g))))
        \* index.js:427-436
        byXFree ==
            (IF has(W_grain_dash_free) \/ has(W_grain_free) \/ has(W_tahIlsIz)
             THEN <<W_tahIl, W_grain, W_buGday, W_wheat, W_mIsIr, W_corn, W_arpa, W_barley>>
             ELSE <<>>)
            \o (IF has(W_gluten_dash_free) \/ has(W_gluten_free) \/ has(W_glutensiz)
                THEN <<W_gluten, W_glUten, W_buGday, W_wheat>> ELSE <<>>)
            \o (IF has(W_dairy_dash_free) \/ has(W_dairy_free)
                THEN <<W_sUt, W_dairy, W_milk, W_peynir, W_cheese, W_yoGurt, W_yogurt>>
                ELSE <<>>)
        \* index.js:438-447
        byLowContent ==
            withTranslations(SelectSeq(lowContentCaptures(msg, 1),
                LAMBDA g : Len(g) > 2 /\ toLowerCase(g) # W_iCerik
                                      /\ toLowerCase(g) # W_icerik))
        \* index.js:449-450
        exclude1 == dedupe(bySuffix \o byNegative \o byXFree \o byLowContent)
        \* index.js:469-474
        words == SelectSeq(splitSpace(msg),
                    LAMBDA w : /\ Len(w) > 2
                               /\ ~arrIncludes(stopWords, w)
                               /\ ~arrIncludes(categoryWords, w)
                               /\ ~arrIncludes(negativeWords, w))
        \* index.js:476
        brandKeywords == SelectSeq(words, LAMBDA w : ~arrIncludes(exclude1, w))
        \* index.js:478-490
        am == ageMatch(msg)
        byAge ==
            IF am = <<>> THEN <<>>
            ELSE IF am[1] < 1 \/ has(W_aylIk) \/ has(W_aylik)
                THEN <<W_yavru, W_kitten, W_puppy, W_junior>>
            ELSE IF am[1] >= 7 THEN <<W_yaSlI, W_senior, W_n7plus, W_mature>>
            ELSE <<W_yetiSkin, W_adult>>
        \* index.js:501-507
        grainFree == has(W_tahIlsIz) \/ has(W_tahilsiz) \/ has(W_grain_free)
        exclude2 ==
            IF grainFree /\ ~arrIncludes(exclude1, W_tahIl)
            THEN exclude1 \o <<W_tahIl, W_grain, W_buGday, W_wheat, W_mIsIr, W_corn>>
            ELSE exclude1
        \* index.js:492-540
        special ==
            byAge
            \o (IF has(W_kIsIr) \/ has(W_kisir) \/ has(W_steril) \/ has(W_neutered)
                THEN <<W_kIsIr, W_sterilised, W_neutered, W_steril>> ELSE <<>>)
            \o (IF has(W_yavru) \/ has(W_puppy) \/ has(W_kitten)
                THEN <<W_yavru, W_puppy, W_kitten, W_junior>> ELSE <<>>)
            \o (IF grainFree THEN <<W_tahIlsIz, W_grain_free, W_grainfree>> ELSE <<>>)
            \o (IF has(W_yaSlI) \/ has(W_yasli) \/ has(W_senior)
                THEN <<W_yaSlI, W_senior, W_n7plus, W_mature, W_elderly>>
                ELSE IF has(W_yaS_mama) \/ has(W_yas_mama) \/ has(W_wet) \/ has(W_pouch)
                THEN <<W_yaS, W_wet, W_pouch, W_konserve>>
                ELSE <<>>)
            \o (IF has(W_kuru) \/ has(W_dry) \/ has(W_kibble)
                THEN <<W_dry, W_kibble>> ELSE <<>>)
            \o (IF has(W_hassas) \/ has(W_sensitive)
                THEN <<W_hassas, W_sensitive>> ELSE <<>>)
            \o (IF has(W_yetiSkin) \/ has(W_adult)
                THEN <<W_yetiSkin, W_adult>> ELSE <<>>)
            \o (IF has(W_bObrek) \/ has(W_bobrek) \/ has(W_renal)
                THEN <<W_bObrek, W_renal, W_kidney>> ELSE <<>>)
            \o (IF has(W_idrar) \/ has(W_urinary)
                THEN <<W_idrar, W_urinary>> ELSE <<>>)
            \o (IF has(W_kilo) \/ has(W_obez) \/ has(W_light)
                THEN <<W_light, W_kilo, W_weight, W_obez>> ELSE <<>>)
            \o (IF has(W_deri) \/ has(W_skin) \/ has(W_tUy) \/ has(W_tuy)
                THEN <<W_deri, W_skin, W_coat, W_tUy>> ELSE <<>>)
    IN  [animal        |-> animal,
         category      |-> cat.category,
         special       |-> special,
         brandKeywords |-> brandKeywords,
         freeText      |-> cat.freeText,
         exclude       |-> exclude2]

----------------------------------------------------------------------------
(* smartFilter and calculateScore (index.js:595-771).  A product is the     *)
(* normalized record of index.js:122-143 without its price and image:       *)
(* [id, title, handle, vendor, productType, tags, description,              *)
(*  availableForSale].                                                      *)

\* titleLower + ' ' + allTags + ' ' + productTypeLower + ' ' + descLower
\* (index.js:600-605, 719-724)
combinedText(p) ==
    toLowerCase(p.title) \o <<" ">> \o joinSpace([i \in 1..Len(p.tags) |-> toLowerCase(p.tags[i])])
    \o <<" ">> \o toLowerCase(p.productType) \o <<" ">> \o toLowerCase(p.description)

allTagsOf(p) == joinSpace([i \in 1..Len(p.tags) |-> toLowerCase(p.tags[i])])

\* one brand keyword in the filter callback (index.js:628-638)
filterBrandScore(p, keyword) ==
    LET vendorLower == toLowerCase(p.vendor) IN
    IF vendorLower # <<>> /\ vendorLower = keyword THEN 50
    ELSE IF vendorLower # <<>> /\ (includes(vendorLower, keyword) \/ includes(keyword, vendorLower))
        THEN 45
    ELSE IF includes(toLowerCase(p.title), keyword) THEN 48
    ELSE IF includes(allTagsOf(p), keyword) THEN 15
    ELSE IF includes(toLowerCase(p.description), keyword) THEN 10
    ELSE 0

RECURSIVE filterBrandSum(_, _)
filterBrandSum(p, keywords) ==
    IF Len(keywords) = 0 THEN 0
    ELSE filterBrandScore(p, keywords[1]) + filterBrandSum(p, Tail(keywords))

\* the stock bonus given whether or not the product can be bought
stockScoreAlways(p) == 3

\* if (p.availableForSale) score += 3                        (index.js:694-697)
stockScore(p) == IF p.availableForSale THEN 3 ELSE 0

\* the score computed inside the filter callback (index.js:599-697)
filterScore(p, terms) ==
    LET combined == combinedText(p)
        \* 0. index.js:607-623: one flat penalty however many terms match
        excludeMatches == countIncluded(combined, terms.exclude)
        exclusion == IF excludeMatches > 0 THEN -100 ELSE 0
        \* 1. index.js:625-640
        brand == filterBrandSum(p, terms.brandKeywords)
        \* 2. index.js:642-654
        animalMatch ==
            \/ includes(toLowerCase(p.productType), terms.animal)
            \/ includes(allTagsOf(p), terms.animal)
            \/ includes(toLowerCase(p.title), terms.animal)
        animal == IF terms.animal = <<>> THEN 0 ELSE IF animalMatch THEN 20 ELSE -5
        \* 3. index.js:656-664
        catMatch ==
            \/ includes(allTagsOf(p), terms.category)
            \/ includes(toLowerCase(p.title), terms.category)
            \/ includes(toLowerCase(p.productType), terms.category)
        category == IF terms.category # <<>> /\ catMatch THEN 15 ELSE 0
        \* 4. index.js:666-678
        freeText == 15 * countIncluded(combined, terms.freeText)
        \* 5. index.js:680-692
        special == 10 * countIncluded(combined, terms.special)
        \* 6. index.js:694-697
        stock == stockScore(p)
    IN  exclusion + brand + animal + category + freeText + special + stock

\* one brand keyword in calculateScore (index.js:736-744)
calcBrandScore(p, keyword) ==
    LET vendorLower == toLowerCase(p.vendor) IN
    IF vendorLower # <<>> /\ vendorLower = keyword THEN 50
    ELSE IF vendorLower # <<>> /\ (includes(vendorLower, keyword) \/ includes(keyword, vendorLower))
        THEN 45
    ELSE IF includes(toLowerCase(p.title), keyword) THEN 48
    ELSE 0

RECURSIVE calcBrandSum(_, _)
calcBrandSum(p, keywords) ==
    IF Len(keywords) = 0 THEN 0
    ELSE calcBrandScore(p, keywords[1]) + calcBrandSum(p, Tail(keywords))

\* calculateScore (index.js:717-771), the key of the sort
calculateScore(p, terms, originalMessage) ==
    LET combined == combinedText(p) IN
      (-100) * countIncluded(combined, terms.exclude)
    + calcBrandSum(p, terms.brandKeywords)
    + (IF terms.animal # <<>> /\ includes(combined, terms.animal) THEN 20 ELSE 0)
    + (IF terms.category # <<>> /\ includes(combined, terms.category) THEN 15 ELSE 0)
    + 15 * countIncluded(combined, terms.freeText)
    + 10 * countIncluded(combined, terms.special)

\* Array.prototype.sort with the comparator scoreB - scoreA (index.js:701-705):
\* a stable sort, descending by calculateScore
RECURSIVE insertByScore(_, _, _, _)
insertByScore(sorted, p, terms, originalMessage) ==
    \* s is the value of sorted, computed once
    CHOOSE r \in
        {IF Len(s) = 0 THEN <<p>>
         ELSE IF calculateScore(s[Len(s)], terms, originalMessage)
                 >= calculateScore(p, terms, originalMessage)
             THEN Append(s, p)
         ELSE Append(insertByScore(SubSeq(s, 1, Len(s) - 1), p, terms, originalMessage),
                     s[Len(s)]) : s \in {sorted}} : TRUE

RECURSIVE sortByScore(_, _, _)
sortByScore(arr, terms, originalMessage) ==
    \* a is the value of arr, computed once
    CHOOSE r \in
        {IF Len(a) = 0 THEN <<>>
         ELSE insertByScore(sortByScore(SubSeq(a, 1, Len(a) - 1), terms, originalMessage),
                            a[Len(a)], terms, originalMessage) : a \in {arr}} : TRUE

\* smartFilter with the filter test weakened to score >= 0
smartFilterKeepsZero(prods, terms, originalMessage) ==
    sortByScore(SelectSeq(prods, LAMBDA p : filterScore(p, terms) >= 0),
                terms, originalMessage)

\* smartFilter (index.js:595-715): keep the products whose filter score is
\* positive, then sort
smartFilter(prods, terms, originalMessage) ==
    sortByScore(SelectSeq(prods, LAMBDA p : filterScore(p, terms) > 0),
                terms, originalMessage)

----------------------------------------------------------------------------
(* Inputs of the rank pipeline: customer messages and catalogs.             *)

\* longest catalog handed to smartFilter in one run of the rank pipeline
MaxCatalogLen == 2

Messages == {
    W_kedi_mamasI_comma_tavuksuz,
    W_T_tavuksuz_T_royal_T_canin_kedi_mamasI,
    W_merhaba,
    W_Cok_iyi,
    W_az_tavuk,
    W_canin,
    W_tahilsiz_corn,
    W_wheat_yok_tahilsiz,
    W_chicken_yok,
    W_n2_yaSInda_kOpek_tasma
}

Product(id, title, handle, vendor, productType, tags, description, availableForSale) ==
    [id |-> id, title |-> title, handle |-> handle, vendor |-> vendor,
     productType |-> productType, tags |-> tags, description |-> description,
     availableForSale |-> availableForSale]

\* the products a shop may return, already normalized (index.js:122-143)
pRoyalChicken ==
    Product(W_n101, W_T_royal_T_canin_T_kedi_T_mamasI_T_tavuklu, W_royal_dash_canin_dash_kedi_dash_tavuklu,
            W_T_royal_T_canin, W_T_kedi_T_mamasI, <<W_kedi, W_mama>>, W_tavuk_etli_kuru_mama, TRUE)
pChicken ==
    Product(W_n102, W_T_chicken_T_cat_T_food, W_chicken_dash_cat_dash_food, W_T_acme, W_cat, <<W_food>>,
            W_empty, TRUE)
pFish ==
    Product(W_n103, W_T_fish_T_cat_T_food, W_fish_dash_cat_dash_food, W_T_acme, W_cat, <<W_food>>, W_empty, TRUE)
pKediFish ==
    Product(W_n104, W_T_kedi_T_mamasI_T_fish, W_kedi_dash_mamasi_dash_fish, W_empty, W_kedi, <<W_mama>>,
            W_somonlu, FALSE)
pLeash ==
    Product(W_n105, W_T_kOpek_T_tasmasI, W_kopek_dash_tasmasi, W_T_trixie, W_aksesuar,
            <<W_kOpek, W_tasma>>, W_empty, TRUE)
pTagged ==
    Product(W_n106, W_T_premium_T_mama, W_premium_dash_mama, W_empty, W_empty, <<W_canin, W_corn>>,
            W_empty, TRUE)

ProductUniverse == <<pRoyalChicken, pChicken, pFish, pKediFish, pLeash, pTagged>>

\* the sequences over the universe up to a length
RECURSIVE seqsUpTo(_)
seqsUpTo(n) ==
    IF n = 0 THEN {<<>>}
    ELSE LET shorter == seqsUpTo(n - 1) IN
         shorter \cup {Append(c, ProductUniverse[i]) :
                          c \in shorter, i \in 1..Len(ProductUniverse)}

\* catalogs: products with pairwise distinct ids and handles, in any order
Catalogs == {c \in seqsUpTo(MaxCatalogLen) :
                \A i, j \in 1..Len(c) : i # j => c[i] # c[j]}

emptyTerms == [animal |-> <<>>, category |-> <<>>, special |-> <<>>,
               brandKeywords |-> <<>>, freeText |-> <<>>, exclude |-> <<>>]

----------------------------------------------------------------------------
(* The rank pipeline of one chat turn (index.js:33 and 164): extract the    *)
(* intent of the message, then rank the catalog.                            *)

resolveVars == <<recentRecommendations, recorded, lastResolve, calls>>
rankVars == <<message, products, searchTerms, filtered, rankPc>>
chatVars == <<productCache, cacheTime, now, req, cleared>>
diversifyVars == <<diversify>>

\* no diversifyProducts call in progress
idleDiversify ==
    diversify = [pc |-> "idle", products |-> <<>>, cheap |-> <<>>, mid |-> <<>>,
                 expensive |-> <<>>, result |-> <<>>]

\* the server right after start, no request received (index.js:14-15)
idleChat ==
    /\ productCache = [isNull |-> TRUE, value |-> <<>>]
    /\ cacheTime = 0
    /\ now = 1
    /\ req = <<>>
    /\ cleared = FALSE

noResolve == [called |-> FALSE, reply |-> <<>>, allProducts |-> <<>>, sessionId |-> 0,
              recent |-> <<>>, recommended |-> <<>>, afterSet |-> <<>>]

InitRank ==
    /\ message \in Messages
    /\ products \in Catalogs
    /\ searchTerms = emptyTerms
    /\ filtered = <<>>
    /\ rankPc = "extract"
    /\ recentRecommendations = <<>>
    /\ recorded = <<>>
    /\ lastResolve = noResolve
    /\ calls = 0
    /\ idleChat
    /\ idleDiversify

\* const searchTerms = buildSearchTerms(message)            (index.js:33)
Extract ==
    /\ rankPc = "extract"
    /\ searchTerms' = buildSearchTerms(message)
    /\ rankPc' = "rank"
    /\ UNCHANGED <<message, products, filtered>>
    /\ UNCHANGED <<resolveVars, chatVars, diversifyVars>>

\* const filteredProducts = smartFilter(allProducts, searchTerms, message)
\*                                                          (index.js:164)
Rank ==
    /\ rankPc = "rank"
    /\ filtered' = smartFilter(products, searchTerms, message)
    /\ rankPc' = "done"
    /\ UNCHANGED <<message, products, searchTerms>>
    /\ UNCHANGED <<resolveVars, chatVars, diversifyVars>>

NextRank == Extract \/ Rank

SpecRank == InitRank /\ [][NextRank]_vars

----------------------------------------------------------------------------
(* Claims about rank (smartFilter), checked under SpecRank.                 *)

\* an exclude term occurs in the lowercased title, tags, category or description
containsExcluded(p, terms) ==
    \E e \in 1..Len(terms.exclude) :
        \/ includes(toLowerCase(p.title), terms.exclude[e])
        \/ \E t \in 1..Len(p.tags) : includes(toLowerCase(p.tags[t]), terms.exclude[e])
        \/ includes(toLowerCase(p.productType), terms.exclude[e])
        \/ includes(toLowerCase(p.description), terms.exclude[e])

\* C1: when the message yields a non-empty exclude list, no product of the
\* ranked list contains an exclude term in its title, tags, category or
\* description, whatever positive factors it also matches.
C1_ExclusionDominates ==
    (rankPc = "done" /\ searchTerms.exclude # <<>>)
        => \A i \in 1..Len(filtered) : ~containsExcluded(filtered[i], searchTerms)

\* C8: the ranked list holds only catalog products whose filter score is
\* strictly positive, and every catalog product scoring 0 or less is absent.
C8_OnlyPositiveScores ==
    rankPc = "done" =>
        /\ \A i \in 1..Len(filtered) :
              /\ \E j \in 1..Len(products) : products[j] = filtered[i]
              /\ filterScore(filtered[i], searchTerms) > 0
        /\ \A j \in 1..Len(products) :
              filterScore(products[j], searchTerms) <= 0
                  => \A i \in 1..Len(filtered) : filtered[i] # products[j]

\* C8 witness: a ranking that kept one product and dropped another whose
\* score is exactly 0.
C8_Witness ==
    /\ rankPc = "done"
    /\ Len(filtered) > 0
    /\ \E j \in 1..Len(products) : filterScore(products[j], searchTerms) = 0

\* C9: the ranked list is in non-increasing order of the score that decided
\* the positive filter.
C9_SortedByFilterScore ==
    rankPc = "done" =>
        \A i, j \in 1..Len(filtered) :
            i < j => filterScore(filtered[i], searchTerms)
                        >= filterScore(filtered[j], searchTerms)

----------------------------------------------------------------------------
(* extractProducts and the recentRecommendations Map (index.js:10-11,       *)
(* 810-867).  The Map is the sequence of its entries [key, value] in        *)
(* insertion order; session keys are numbers.                               *)

MaxRecommended == 3
MaxRecent == 15
MaxSessions == 1000
KeptSessions == 500

\* Map.prototype.has
mapHas(map, key) == \E i \in 1..Len(map) : map[i].key = key

\* a read of the history that finds nothing
mapGetNothing(map, key) == <<>>

\* recentRecommendations.get(sessionId) || []               (index.js:813)
mapGet(map, key) ==
    IF mapHas(map, key)
    THEN map[CHOOSE i \in 1..Len(map) : map[i].key = key].value
    ELSE <<>>

\* a set that writes the value to every stored session
mapSetEverywhere(map, key, value) ==
    IF mapHas(map, key)
    THEN [i \in 1..Len(map) |-> [key |-> map[i].key, value |-> value]]
    ELSE Append([i \in 1..Len(map) |-> [key |-> map[i].key, value |-> value]],
                [key |-> key, value |-> value])

\* Map.prototype.set: an existing key keeps its place, a new key goes last
mapSet(map, key, value) ==
    IF mapHas(map, key)
    THEN [i \in 1..Len(map) |-> IF map[i].key = key
                                 THEN [key |-> key, value |-> value]
                                 ELSE map[i]]
    ELSE Append(map, [key |-> key, value |-> value])

\* the object pushed to recommended (index.js:822-829), without price and image
toRecommended(p) == [title |-> p.title, handle |-> p.handle, vendor |-> p.vendor]

\* mentioned, also matching on the vendor name
mentionedOrVendor(reply, p) ==
    includes(reply, p.title) \/ includes(reply, p.handle) \/ includes(reply, p.vendor)

\* titleMatch || handleMatch                                (index.js:816-819)
mentioned(reply, p) == includes(reply, p.title) \/ includes(reply, p.handle)

\* the first forEach (index.js:815-831): candidates of the reply that are not
\* in the recent list, up to 3
RECURSIVE firstPass(_, _, _, _)
firstPass(reply, prods, recent, recommended) ==
    IF Len(prods) = 0 THEN recommended
    ELSE LET p == Head(prods) IN
         \* next is the list after this element, computed once
         CHOOSE r \in
             {firstPass(reply, Tail(prods), recent, next) : next \in
                 {IF /\ mentioned(reply, p)
                     /\ Len(recommended) < MaxRecommended
                     /\ ~arrIncludes(recent, p.id)
                  THEN Append(recommended, toRecommended(p))
                  ELSE recommended}} : TRUE

\* recommended.some(r => r.handle === p.handle)               (index.js:839)
alreadyAdded(recommended, p) ==
    \E i \in 1..Len(recommended) : recommended[i].handle = p.handle

\* the second forEach without its alreadyAdded test
RECURSIVE secondPassNoDedupe(_, _, _)
secondPassNoDedupe(reply, prods, recommended) ==
    IF Len(prods) = 0 THEN recommended
    ELSE LET p == Head(prods) IN
         CHOOSE r \in
             {secondPassNoDedupe(reply, Tail(prods), next) : next \in
                 {IF mentioned(reply, p) /\ Len(recommended) < MaxRecommended
                  THEN Append(recommended, toRecommended(p))
                  ELSE recommended}} : TRUE

\* the second forEach (index.js:834-851): top up without the recency test
RECURSIVE secondPass(_, _, _)
secondPass(reply, prods, recommended) ==
    IF Len(prods) = 0 THEN recommended
    ELSE LET p == Head(prods) IN
         CHOOSE r \in
             {secondPass(reply, Tail(prods), next) : next \in
                 {IF /\ mentioned(reply, p)
                     /\ Len(recommended) < MaxRecommended
                     /\ ~alreadyAdded(recommended, p)
                  THEN Append(recommended, toRecommended(p))
                  ELSE recommended}} : TRUE

\* extractProducts without its second pass
recommendedFirstPassOnly(reply, allProducts, recent) ==
    firstPass(reply, allProducts, recent, <<>>)

\* the list extractProducts returns (index.js:811-852, 866)
recommendedOf(reply, allProducts, recent) ==
    \* first is the list after the first forEach, computed once
    CHOOSE r \in
        {IF Len(first) < MaxRecommended THEN secondPass(reply, allProducts, first) ELSE first :
            first \in {firstPass(reply, allProducts, recent, <<>>)}} : TRUE

\* recommended.map(r => r.handle)                             (index.js:854)
productIdsOf(recommended) == [i \in 1..Len(recommended) |-> recommended[i].handle]

\* the history truncated with slice(0, 15): the oldest entries kept
updatedRecentKeepsOldest(recent, productIds) == sliceFirst(recent \o productIds, MaxRecent)

\* [...recent, ...productIds].slice(-15)                      (index.js:855)
updatedRecentOf(recent, productIds) == sliceLast(recent \o productIds, MaxRecent)

\* the eviction that clears the Map and re-inserts nothing
evictEverything(map) ==
    IF Len(map) > MaxSessions THEN <<>> ELSE map

\* the eviction keeping the first 500 entries: slice(0, 500) for slice(-500)
evictNewest(map) ==
    IF Len(map) > MaxSessions THEN sliceFirst(map, KeptSessions) ELSE map

\* the eviction of index.js:858-864
evictOldest(map) ==
    IF Len(map) > MaxSessions THEN sliceLast(map, KeptSessions) ELSE map

\* extractProducts (index.js:810-867): the returned list and the Map it leaves
extractProducts(map, reply, allProducts, sessionId) ==
    \* recommended is the resolved list, computed once
    CHOOSE x \in
        {LET recent   == mapGet(map, sessionId)
             afterSet == mapSet(map, sessionId,
                                updatedRecentOf(recent, productIdsOf(recommended)))
         IN  [recommended |-> recommended,
              recent      |-> recent,
              afterSet    |-> afterSet,
              map         |-> evictOldest(afterSet)] :
            recommended \in {recommendedOf(reply, allProducts, mapGet(map, sessionId))}} : TRUE

----------------------------------------------------------------------------
(* Inputs of the resolver: candidate lists (the productsForAI of a turn),   *)
(* replies of the language model, session keys.                             *)

\* extractProducts calls in one run of the resolver specification
MaxCalls == 6

qAlfa  == Product(W_n201, W_T_alfa, W_alfa, W_T_acme, W_empty, <<>>, W_empty, TRUE)
qBeta  == Product(W_n202, W_T_beta, W_beta, W_T_acme, W_empty, <<>>, W_empty, TRUE)
qGama  == Product(W_n203, W_T_gama, W_gama, W_empty, W_empty, <<>>, W_empty, TRUE)
qDelta == Product(W_n204, W_T_delta, W_delta, W_empty, W_empty, <<>>, W_empty, TRUE)
\* a product whose handle is its numeric id (a title made of digits)
qNumeric == Product(W_n4711, W_T_kolonya_4711, W_n4711, W_empty, W_empty, <<>>, W_empty, TRUE)

candidatesLong  == <<qAlfa, qBeta, qGama, qDelta, qNumeric>>
candidatesShort == <<qNumeric, qAlfa, qBeta, qGama>>

replyNone == W_T_uygun_bir_urun_bulamadim
replyAlfa == W_bak__slash_products_slash_alfa
replyAll  == W_T_alfa_comma_T_beta_comma_T_gama_comma_T_delta_ve_T_kolonya_4711
replyTwo  == W_T_kolonya_4711_ya_da_T_alfa

\* (sessionId, reply, allProducts) of the modelled calls
ResolveInputs ==
    {<<1, replyNone, candidatesLong>>,
     <<1, replyAlfa, candidatesLong>>,
     <<1, replyAll,  candidatesLong>>,
     <<1, replyAll,  candidatesShort>>,
     <<1, replyTwo,  candidatesShort>>,
     <<2, replyAll,  candidatesLong>>}

idleRank ==
    /\ message = <<>>
    /\ products = <<>>
    /\ searchTerms = emptyTerms
    /\ filtered = <<>>
    /\ rankPc = "idle"

InitResolve ==
    /\ idleRank
    /\ idleChat
    /\ idleDiversify
    /\ recentRecommendations = <<>>
    /\ recorded = <<>>
    /\ lastResolve = noResolve
    /\ calls = 0

\* one call extractProducts(reply, productsForAI, sessionId) (index.js:217)
ResolveCall(sessionId, reply, allProducts) ==
    \E r \in {extractProducts(recentRecommendations, reply, allProducts, sessionId)} :
        LET ids  == productIdsOf(r.recommended)
            old  == IF sessionId \in DOMAIN recorded THEN recorded[sessionId] ELSE <<>>
            kept == {r.map[i].key : i \in 1..Len(r.map)}
        IN  /\ recentRecommendations' = r.map
            /\ recorded' = [k \in kept |->
                               IF k = sessionId THEN old \o ids ELSE recorded[k]]
            /\ lastResolve' = [called |-> TRUE, reply |-> reply,
                               allProducts |-> allProducts, sessionId |-> sessionId,
                               recent |-> r.recent, recommended |-> r.recommended,
                               afterSet |-> r.afterSet]
            /\ calls' = calls + 1
            /\ UNCHANGED <<rankVars, chatVars, diversifyVars>>

Resolve ==
    /\ calls < MaxCalls
    /\ \E in \in ResolveInputs : ResolveCall(in[1], in[2], in[3])

NextResolve == Resolve

SpecResolve == InitResolve /\ [][NextResolve]_vars

----------------------------------------------------------------------------
(* Claims about resolve (extractProducts), checked under SpecResolve.       *)

\* the candidates of the last call that its reply mentions by title or handle
mentionedIn(call) ==
    {i \in 1..Len(call.allProducts) :
        \/ includes(call.reply, call.allProducts[i].title)
        \/ includes(call.reply, call.allProducts[i].handle)}

\* the returned entry r is the candidate p
isCandidate(r, p) == r.title = p.title /\ r.handle = p.handle /\ r.vendor = p.vendor

\* C2: every returned product is one of the candidates and its title or its
\* handle is a literal substring of the reply; a reply that mentions no
\* candidate yields the empty list.
C2_Grounded ==
    lastResolve.called =>
        /\ \A k \in 1..Len(lastResolve.recommended) :
              \E i \in mentionedIn(lastResolve) :
                  isCandidate(lastResolve.recommended[k], lastResolve.allProducts[i])
        /\ (mentionedIn(lastResolve) = {} => lastResolve.recommended = <<>>)

\* C2 witness: a call that returned something while leaving out a candidate
\* the reply does not mention.
C2_Witness ==
    /\ lastResolve.called
    /\ Len(lastResolve.recommended) > 0
    /\ \E i \in 1..Len(lastResolve.allProducts) : i \notin mentionedIn(lastResolve)

\* C3: a product recorded by an earlier call of the session (its identifier
\* is in the session's history) is not returned again when the reply
\* mentions at least 3 other candidates that are not in the history.
C3_RecentNotRepeated ==
    lastResolve.called =>
        \A i \in mentionedIn(lastResolve) :
            LET p == lastResolve.allProducts[i]
                fresh == {j \in mentionedIn(lastResolve) :
                             /\ j # i
                             /\ ~arrIncludes(lastResolve.recent,
                                             lastResolve.allProducts[j].handle)}
            IN  (arrIncludes(lastResolve.recent, p.handle) /\ Cardinality(fresh) >= 3)
                    => \A k \in 1..Len(lastResolve.recommended) :
                           ~isCandidate(lastResolve.recommended[k], p)

\* C4: a call returns at most 3 products and no product twice (the
\* candidates have pairwise distinct handles).
C4_AtMostThreeDistinct ==
    lastResolve.called =>
        /\ Len(lastResolve.recommended) <= 3
        /\ \A k, l \in 1..Len(lastResolve.recommended) :
              k # l => lastResolve.recommended[k].handle # lastResolve.recommended[l].handle

\* the second pass ran and added a candidate the first pass had skipped
toppedUp ==
    /\ lastResolve.called
    /\ \E i \in mentionedIn(lastResolve) :
          /\ arrIncludes(lastResolve.recent, lastResolve.allProducts[i].id)
          /\ \E k \in 1..Len(lastResolve.recommended) :
                isCandidate(lastResolve.recommended[k], lastResolve.allProducts[i])

\* C4 witness: a call whose second pass added a product after one the first
\* pass had selected.
C4_Witness ==
    /\ toppedUp
    /\ Len(lastResolve.recommended) >= 2
    /\ \A i, j \in 1..Len(lastResolve.allProducts) :
          i # j => lastResolve.allProducts[i].handle # lastResolve.allProducts[j].handle

\* C5: a call returns exactly min(3, m) products, m the number of candidates
\* the reply mentions, whatever the session's history.
C5_ExactlyMinThreeM ==
    lastResolve.called =>
        LET m == Cardinality(mentionedIn(lastResolve)) IN
        Len(lastResolve.recommended) = (IF m < 3 THEN m ELSE 3)

\* C5 witness: the first pass found fewer than 3 because of the history and
\* the second pass topped the list up to all m < 3 mentioned candidates.
C5_Witness ==
    /\ toppedUp
    /\ lastResolve.recent # <<>>
    /\ Cardinality(mentionedIn(lastResolve)) = Len(lastResolve.recommended)
    /\ Len(lastResolve.recommended) < 3

\* C6: every stored history has at most 15 entries and is the last 15 of the
\* identifiers recorded for its session, in recording order.
C6_HistoryIsLastFifteen ==
    \A e \in 1..Len(recentRecommendations) :
        LET entry == recentRecommendations[e] IN
        /\ Len(entry.value) <= 15
        /\ entry.key \in DOMAIN recorded
        /\ entry.value = sliceLast(recorded[entry.key], 15)

\* C6 witness: a session for which more than 15 identifiers were recorded.
C6_Witness ==
    \E e \in 1..Len(recentRecommendations) :
        /\ recentRecommendations[e].key \in DOMAIN recorded
        /\ Len(recorded[recentRecommendations[e].key]) > 15

----------------------------------------------------------------------------
(* The resolver on a nearly full Map: the state after PrefillSessions       *)
(* earlier sessions (keys 101, 102, ...) each made resolve calls, every     *)
(* second one with three recorded identifiers, the others with replies that *)
(* mentioned no candidate.                                                  *)

\* sessions already stored when the run starts
PrefillSessions == 998

\* extractProducts calls in one run on the nearly full Map
MaxEvictCalls == 3

prefillHistory(i) == IF i % 2 = 0 THEN <<W_alfa, W_beta, W_gama>> ELSE <<>>

prefilledMap ==
    [i \in 1..PrefillSessions |-> [key |-> 100 + i, value |-> prefillHistory(i)]]

\* (sessionId, reply, allProducts) of the modelled calls: three new sessions
\* and the oldest stored one
EvictInputs ==
    {<<s, r, candidatesLong>> : s \in {1, 2, 3, 101}, r \in {replyNone, replyAll}}

InitEvict ==
    /\ idleRank
    /\ idleChat
    /\ idleDiversify
    /\ recentRecommendations = prefilledMap
    /\ recorded = [k \in {100 + i : i \in 1..PrefillSessions} |-> prefillHistory(k - 100)]
    /\ lastResolve = noResolve
    /\ calls = 0

ResolveNearCap ==
    /\ calls < MaxEvictCalls
    /\ \E in \in EvictInputs : ResolveCall(in[1], in[2], in[3])

NextEvict == ResolveNearCap

SpecEvict == InitEvict /\ [][NextEvict]_vars

\* C7: the Map never holds more than 1000 sessions after a call; when a call
\* brought it above 1000, what remains is exactly the newest 500 entries, in
\* order and with their histories unchanged, every older entry being evicted.
C7_SessionCap ==
    /\ Len(recentRecommendations) <= 1000
    /\ (lastResolve.called /\ Len(lastResolve.afterSet) > 1000) =>
          LET n == Len(lastResolve.afterSet) IN
          /\ Len(recentRecommendations) = 500
          /\ \A i \in 1..500 : recentRecommendations[i] = lastResolve.afterSet[n - 500 + i]

\* C7 witness: a call that brought the Map to 1001 sessions and evicted, the
\* kept half holding non-empty histories.
C7_Witness ==
    /\ lastResolve.called
    /\ Len(lastResolve.afterSet) = 1001
    /\ \E i \in 1..Len(recentRecommendations) : recentRecommendations[i].value # <<>>

----------------------------------------------------------------------------
(* POST /api/chat and POST /api/clear-cache (index.js:18-241).  A request   *)
(* runs from one await to the next in one step; between two awaits other    *)
(* requests may run.                                                        *)

\* chat requests in one run
MaxRequests == 2
\* clock advances in one run, each of the cache duration
MaxTicks == 1

CACHE_DURATION == 5 * 60 * 1000
maxPages == 20
MaxForAI == 12

TickMs == CACHE_DURATION

\* Array.prototype.join(', ')
RECURSIVE joinCommaSpace(_)
joinCommaSpace(arr) ==
    IF Len(arr) = 0 THEN <<>>
    ELSE IF Len(arr) = 1 THEN arr[1]
    ELSE arr[1] \o <<",", " ">> \o joinCommaSpace(Tail(arr))

\* String.prototype.split(', ')                              (index.js:128)
RECURSIVE splitCommaSpace(_)
splitCommaSpace(s) ==
    IF \E i \in 1..(Len(s) - 1) : s[i] = "," /\ s[i + 1] = " "
    THEN LET i == CHOOSE j \in 1..(Len(s) - 1) :
                     /\ s[j] = "," /\ s[j + 1] = " "
                     /\ \A k \in 1..(j - 1) : ~(s[k] = "," /\ s[k + 1] = " ")
         IN  <<SubSeq(s, 1, i - 1)>> \o splitCommaSpace(SubSeq(s, i + 2, Len(s)))
    ELSE <<s>>

\* a product as the Admin API returns it: tags in one string, body_html
\* without markup, inStock for variants.some(...) of index.js:137-139
rawOf(p, status) ==
    [id |-> p.id, title |-> p.title, handle |-> p.handle, vendor |-> p.vendor,
     product_type |-> p.productType, tags |-> joinCommaSpace(p.tags),
     body_html |-> p.description, status |-> status, inStock |-> p.availableForSale]

\* the .map callback of index.js:107-144
normalizeOne(raw) ==
    Product(raw.id, raw.title, raw.handle, raw.vendor, raw.product_type,
            IF raw.tags = <<>> THEN <<>> ELSE splitCommaSpace(raw.tags),
            raw.body_html, raw.inStock)

\* allShopifyProducts.filter(p => p.status === 'active').map(...)
normalize(allShopifyProducts) ==
    LET active == SelectSeq(allShopifyProducts, LAMBDA p : p.status = "active")
    IN  [i \in 1..Len(active) |-> normalizeOne(active[i])]

\* the shop whose catalog has a next page after every page
EndlessShop == 3

\* a shop whose catalog has two pages of one product
TwoPageShop == 4

\* a number below 100 written with two digits
twoDigits(n) == <<Digits[(n \div 10) + 1], Digits[(n % 10) + 1]>>

\* the only product of page n of the endless shop
pEndless(n) ==
    Product(<<"3">> \o twoDigits(n), W_T_mama_ \o twoDigits(n), W_mama_dash_ \o twoDigits(n),
            W_T_acme, W_cat, <<W_food>>, W_empty, TRUE)

\* the pages of the shops with a last page; the only product of shop 2 is
\* out of stock
shopPages(shopDomain) ==
    IF shopDomain = 1
    THEN << <<rawOf(pRoyalChicken, "active"), rawOf(pChicken, "draft")>>,
            <<rawOf(pFish, "active")>> >>
    ELSE IF shopDomain = TwoPageShop
    THEN << <<rawOf(pEndless(1), "active")>>, <<rawOf(pEndless(2), "active")>> >>
    ELSE << <<rawOf(pKediFish, "active")>> >>

\* what the provider answers to the request for a page: its products and
\* whether the Link header names a next page
shopPage(shopDomain, pageCount) ==
    LET pages == shopPages(shopDomain)
    IN  IF shopDomain = EndlessShop
        THEN [products |-> <<rawOf(pEndless(pageCount), "active")>>, hasNext |-> TRUE]
        ELSE IF pageCount <= Len(pages)
        THEN [products |-> pages[pageCount], hasNext |-> pageCount < Len(pages)]
        ELSE [products |-> <<>>, hasNext |-> FALSE]

ShopifyOutcomes == {"reject", "errors", "empty", "page"}

replyShop == W_T_royal_T_canin_T_kedi_T_mamasI_T_tavuklu_comma_T_fish_T_cat_T_food_ya_da_T_kedi_T_mamasI_T_fish
ChatReplies == {replyNone, replyShop}
OpenAIOutcomes == {"reject", "error", "nochoices", "reply"}

\* (message, shopDomain, x-session-id) of the modelled requests; an empty
\* message, shop 0 and header 0 stand for a missing one
ChatInputs ==
    {<< <<>>, 1, 0>>,
     <<W_merhaba, 0, 0>>,
     <<W_merhaba, 1, 0>>,
     <<W_merhaba, 2, 7>>}

validationReply == W_T_mesaj_veya_shop_domain_eksik
\* the beginning of the reply of index.js:170
fallbackReply == W_T_bu_kriterlere_uygun_UrUn_bulamadIm
errorPrefix == W_T_bir_hata_oluStu_colon_
fetchFailed == W_fetch_failed
shopifyErrors == W_T_not_T_found
openAIErrorMessage == W_T_rate_limit_reached

\* JSON.stringify of a string without special characters
jsonStringify(s) == <<"\"">> \o s \o <<"\"">>

noResponse == [status |-> 0, fields |-> {}, reply |-> <<>>, products |-> <<>>,
               error |-> <<>>]

\* a request whose handler has returned: its locals are gone
closedRequest == [pc |-> "closed", message |-> <<>>, shopDomain |-> 0, header |-> 0,
                  allShopifyProducts |-> <<>>, pageCount |-> 0, filteredProducts |-> <<>>,
                  productsForAI |-> <<>>,
                  extracted |-> FALSE, ranked |-> "no", llmCalls |-> 0,
                  callsAtArrival |-> 0, responses |-> 1, res |-> noResponse]

\* a request the server has not received yet
newRequest ==
    [pc |-> "new", message |-> <<>>, shopDomain |-> 0, header |-> 0,
     allShopifyProducts |-> <<>>, pageCount |-> 0, filteredProducts |-> <<>>,
     productsForAI |-> <<>>,
     extracted |-> FALSE, ranked |-> "no", llmCalls |-> 0,
     callsAtArrival |-> 0, responses |-> 0, res |-> noResponse]

\* res.status(status).json(body)
respond(rq, status, fields, reply, prods, error) ==
    [rq EXCEPT !.pc = "done", !.responses = @ + 1,
               !.res = [status |-> status, fields |-> fields, reply |-> reply,
                        products |-> prods, error |-> error]]

\* a catch block that logs the error and sends nothing
respondErrorSilent(rq, errorMessage) == [rq EXCEPT !.pc = "done"]

\* the catch block                                           (index.js:226-232)
respondError(rq, errorMessage) ==
    respond(rq, 500, {"error", "reply"}, errorPrefix \o errorMessage, <<>>, errorMessage)

openAIName == <<"O", "p", "e", "n", "A", "I">>

\* productCache && cacheTime && (Date.now() - cacheTime < CACHE_DURATION)
cacheValid ==
    /\ ~productCache.isNull
    /\ cacheTime # 0
    /\ now - cacheTime < CACHE_DURATION

\* the no-results test switched off
isNoResultsNever(filteredProducts) == FALSE

\* filteredProducts.length === 0                             (index.js:168)
isNoResults(filteredProducts) == Len(filteredProducts) = 0

\* index.js:166-196, from the ranked list to the fallback response or to
\* the request sent to the language model
afterRank(rq, filteredProducts) ==
    LET ranked == [rq EXCEPT !.filteredProducts = filteredProducts,
                             !.ranked = IF Len(filteredProducts) = 0
                                        THEN "empty" ELSE "some"]
    IN  IF isNoResults(filteredProducts)
        THEN respond(ranked, 200, {"reply", "products"}, fallbackReply, <<>>, <<>>)
        ELSE [ranked EXCEPT !.productsForAI = sliceFirst(filteredProducts, MaxForAI),
                            !.llmCalls = @ + 1,
                            !.pc = "awaitAI"]

\* index.js:164-196 for request r; searchTerms of index.js:33 is a function
\* of the message alone and is computed here
afterCatalog(r, rq, allProducts) ==
    \E searchTerms_ \in {buildSearchTerms(rq.message)} :
        \E filteredProducts \in {smartFilter(allProducts, searchTerms_, rq.message)} :
            req' = [req EXCEPT ![r] = afterRank(rq, filteredProducts)]

\* index.js:102-164 after the pagination loop: normalize, store the cache,
\* then rank
finishFetch(r, rq) ==
    \E allProducts \in {normalize(rq.allShopifyProducts)} :
        /\ productCache' = [isNull |-> FALSE, value |-> allProducts]
        /\ cacheTime' = now
        /\ afterCatalog(r, rq, allProducts)

\* the next turn of the while loop up to its fetch           (index.js:50-60)
requestPage(rq) ==
    [rq EXCEPT !.pageCount = @ + 1, !.pc = "awaitPage"]

InitChat ==
    /\ idleRank
    /\ idleDiversify
    /\ recentRecommendations = <<>>
    /\ recorded = <<>>
    /\ lastResolve = noResolve
    /\ calls = 0
    /\ productCache = [isNull |-> TRUE, value |-> <<>>]
    /\ cacheTime = 0
    /\ now = 1
    /\ req = [r \in 1..MaxRequests |-> newRequest]
    /\ cleared = FALSE

\* the validation test without its shop domain half
isInvalidMessageOnly(msg, shopDomain) == msg = <<>>

\* !message || !shopDomain                                   (index.js:25)
isInvalid(msg, shopDomain) == msg = <<>> \/ shopDomain = 0

\* a response is on its way out before the server takes its next step
delivered == \A r \in DOMAIN req : req[r].pc # "done"

\* the handler has returned after res.json(...)
Return(r) ==
    /\ req[r].pc = "done"
    /\ req' = [req EXCEPT ![r] = closedRequest]
    /\ UNCHANGED <<productCache, cacheTime, now, cleared>>
    /\ UNCHANGED <<rankVars, resolveVars, diversifyVars>>

\* a request arrives and runs to its first await or to its response
\* (index.js:18-54 on a cache miss, 18-41 and 164-196 on a cache hit);
\* the requests are numbered in the order of their arrival
ChatStart(r, in) ==
    /\ delivered
    /\ req[r].pc = "new"
    /\ \A earlier \in 1..(r - 1) : req[earlier].pc # "new"
    /\ LET rq == [req[r] EXCEPT !.message = in[1], !.shopDomain = in[2],
                                !.header = in[3], !.callsAtArrival = calls]
           \* const searchTerms = buildSearchTerms(message)   (index.js:33)
           valid == [rq EXCEPT !.extracted = TRUE]
       IN  IF isInvalid(in[1], in[2])
           THEN req' = [req EXCEPT ![r] =
                           respond(rq, 400, {"reply", "products"}, validationReply,
                                   <<>>, <<>>)]
           ELSE IF cacheValid
           THEN afterCatalog(r, valid, productCache.value)
           ELSE req' = [req EXCEPT ![r] = requestPage(valid)]
    /\ cleared' = (cleared /\ isInvalid(in[1], in[2]))
    /\ UNCHANGED <<productCache, cacheTime, now>>
    /\ UNCHANGED <<rankVars, resolveVars, diversifyVars>>

\* the catalog provider answers a page request               (index.js:54-100)
PageResponse(r, outcome) ==
    /\ delivered
    /\ req[r].pc = "awaitPage"
    /\ \E rq \in {req[r]} : \E page \in {shopPage(rq.shopDomain, rq.pageCount)} :
           CASE outcome = "reject" ->
                    /\ req' = [req EXCEPT ![r] = respondError(rq, fetchFailed)]
                    /\ UNCHANGED <<productCache, cacheTime>>
             [] outcome = "errors" ->
                    /\ req' = [req EXCEPT ![r] =
                                  respondError(rq, W_T_shopify_hatasI_colon_
                                                   \o jsonStringify(shopifyErrors))]
                    /\ UNCHANGED <<productCache, cacheTime>>
             [] outcome = "empty" \/ (outcome = "page" /\ page.products = <<>>) ->
                    finishFetch(r, rq)
             [] OTHER ->
                    \E more \in {[rq EXCEPT !.allShopifyProducts = @ \o page.products]} :
                        IF page.hasNext
                        THEN /\ req' = [req EXCEPT ![r] =
                                           [more EXCEPT !.pc = "awaitDelay"]]
                             /\ UNCHANGED <<productCache, cacheTime>>
                        ELSE finishFetch(r, more)
    /\ UNCHANGED <<now, cleared>>
    /\ UNCHANGED <<rankVars, resolveVars, diversifyVars>>

\* the loop condition tested with <= for <
DelayDoneOneMore(r) ==
    /\ delivered
    /\ req[r].pc = "awaitDelay"
    /\ IF req[r].pageCount <= maxPages
       THEN /\ req' = [req EXCEPT ![r] = requestPage(req[r])]
            /\ UNCHANGED <<productCache, cacheTime>>
       ELSE finishFetch(r, req[r])
    /\ UNCHANGED <<now, cleared>>
    /\ UNCHANGED <<rankVars, resolveVars, diversifyVars>>

\* the 550 ms timer fires and the loop condition is tested   (index.js:98, 50)
DelayDone(r) ==
    /\ delivered
    /\ req[r].pc = "awaitDelay"
    /\ IF req[r].pageCount < maxPages
       THEN /\ req' = [req EXCEPT ![r] = requestPage(req[r])]
            /\ UNCHANGED <<productCache, cacheTime>>
       ELSE finishFetch(r, req[r])
    /\ UNCHANGED <<now, cleared>>
    /\ UNCHANGED <<rankVars, resolveVars, diversifyVars>>

\* the language-model provider answers                       (index.js:181-224)
AIResponse(r, outcome, reply) ==
    /\ delivered
    /\ req[r].pc = "awaitAI"
    /\ LET rq == req[r]
           sessionId == IF rq.header # 0 THEN rq.header ELSE rq.shopDomain
       IN  CASE outcome = "reject" ->
                    /\ req' = [req EXCEPT ![r] = respondError(rq, fetchFailed)]
                    /\ UNCHANGED resolveVars
             [] outcome = "error" ->
                    /\ req' = [req EXCEPT ![r] =
                                  respondError(rq, openAIName \o W__hatasI_colon_ \o openAIErrorMessage)]
                    /\ UNCHANGED resolveVars
             [] outcome = "nochoices" ->
                    /\ req' = [req EXCEPT ![r] = respondError(rq, openAIName \o W__yanIt_vermedi)]
                    /\ UNCHANGED resolveVars
             [] OTHER ->
                    \E x \in {extractProducts(recentRecommendations, reply,
                                              rq.productsForAI, sessionId)} :
                        LET ids  == productIdsOf(x.recommended)
                            old  == IF sessionId \in DOMAIN recorded
                                    THEN recorded[sessionId] ELSE <<>>
                            kept == {x.map[i].key : i \in 1..Len(x.map)}
                        IN  /\ recentRecommendations' = x.map
                            /\ recorded' = [k \in kept |->
                                               IF k = sessionId THEN old \o ids
                                               ELSE recorded[k]]
                            /\ lastResolve' = [called |-> TRUE, reply |-> reply,
                                               allProducts |-> rq.productsForAI,
                                               sessionId |-> sessionId,
                                               recent |-> x.recent,
                                               recommended |-> x.recommended,
                                               afterSet |-> x.afterSet]
                            /\ calls' = calls + 1
                            /\ req' = [req EXCEPT ![r] =
                                          respond(rq, 200, {"reply", "products"}, reply,
                                                  x.recommended, <<>>)]
    /\ UNCHANGED <<productCache, cacheTime, now, cleared>>
    /\ UNCHANGED <<rankVars, diversifyVars>>

\* clear-cache that also forgets every session
ClearCacheAndSessions ==
    /\ delivered
    /\ productCache' = [isNull |-> TRUE, value |-> <<>>]
    /\ cacheTime' = 0
    /\ cleared' = TRUE
    /\ recentRecommendations' = <<>>
    /\ UNCHANGED <<now, req>>
    /\ UNCHANGED <<recorded, lastResolve, calls>>
    /\ UNCHANGED <<rankVars, diversifyVars>>

\* clear-cache that forgets to reset cacheTime
ClearCacheKeepsTime ==
    /\ delivered
    /\ productCache' = [isNull |-> TRUE, value |-> <<>>]
    /\ cacheTime' = cacheTime
    /\ cleared' = TRUE
    /\ UNCHANGED <<now, req>>
    /\ UNCHANGED <<rankVars, resolveVars, diversifyVars>>

\* POST /api/clear-cache                                     (index.js:236-241)
ClearCache ==
    /\ delivered
    /\ productCache' = [isNull |-> TRUE, value |-> <<>>]
    /\ cacheTime' = 0
    /\ cleared' = TRUE
    /\ UNCHANGED <<now, req>>
    /\ UNCHANGED <<rankVars, resolveVars, diversifyVars>>

\* time passes
Tick ==
    /\ delivered
    /\ now < 1 + MaxTicks * TickMs
    /\ now' = now + TickMs
    /\ UNCHANGED <<productCache, cacheTime, req, cleared>>
    /\ UNCHANGED <<rankVars, resolveVars, diversifyVars>>

NextChat ==
    \/ \E r \in DOMAIN req : \E in \in ChatInputs : ChatStart(r, in)
    \/ \E r \in DOMAIN req : \E outcome \in ShopifyOutcomes : PageResponse(r, outcome)
    \/ \E r \in DOMAIN req : DelayDone(r)
    \/ \E r \in DOMAIN req : \E outcome \in OpenAIOutcomes : \E reply \in ChatReplies :
           AIResponse(r, outcome, reply)
    \/ \E r \in DOMAIN req : Return(r)
    \/ ClearCache
    \/ Tick

SpecChat == InitChat /\ [][NextChat]_vars

\* C10: a chat turn whose rank returned an empty list has answered, once and
\* with status 200, the fixed fallback reply and an empty product list, and
\* has sent no request to the language model.
C10_NoResultsFallback ==
    \A r \in DOMAIN req :
        req[r].ranked = "empty" =>
            /\ req[r].pc = "done"
            /\ req[r].responses = 1
            /\ req[r].res.status = 200
            /\ req[r].res.fields = {"reply", "products"}
            /\ req[r].res.reply = fallbackReply
            /\ req[r].res.products = <<>>
            /\ req[r].llmCalls = 0

\* a turn that ranked a non-empty catalog to nothing and ended
C10_Witness ==
    \E r \in DOMAIN req :
        /\ req[r].ranked = "empty"
        /\ req[r].pc = "done"
        /\ ~productCache.isNull /\ productCache.value # <<>>
        /\ req[r].res.reply = fallbackReply

\* C11: a request that arrives without a message or without a shop domain is
\* answered in that same step with status 400, the validation reply and an
\* empty product list; it extracts no intent, requests no catalog page, ranks
\* nothing, calls no language model, and leaves the cache and the session map
\* as they were.
C11_ValidationShortCircuit ==
    [][\A r \in DOMAIN req :
          (/\ req[r].pc = "new"
           /\ req'[r].pc # "new"
           /\ (req'[r].message = <<>> \/ req'[r].shopDomain = 0))
          => /\ req'[r].pc = "done"
             /\ req'[r].responses = 1
             /\ req'[r].res.status = 400
             /\ req'[r].res.fields = {"reply", "products"}
             /\ req'[r].res.reply = validationReply
             /\ req'[r].res.products = <<>>
             /\ ~req'[r].extracted
             /\ req'[r].pageCount = 0
             /\ req'[r].ranked = "no"
             /\ req'[r].llmCalls = 0
             /\ UNCHANGED <<productCache, cacheTime, recentRecommendations>>]_vars

\* a request without shop domain rejected while a cache and a session exist
C11_Witness ==
    \E r \in DOMAIN req :
        /\ req[r].pc = "done"
        /\ req[r].res.status = 400
        /\ req[r].message # <<>> /\ req[r].shopDomain = 0
        /\ ~productCache.isNull
        /\ recentRecommendations # <<>>

\* C12: every chat turn that ends on a failure path (status 500) carries in
\* its response a reply that starts with the apology and a products field
\* holding the empty list.
C12_FailureEmptyProducts ==
    \A r \in DOMAIN req :
        (req[r].pc = "done" /\ req[r].res.status = 500) =>
            /\ "reply" \in req[r].res.fields
            /\ SubSeq(req[r].res.reply, 1, Len(errorPrefix)) = errorPrefix
            /\ "products" \in req[r].res.fields
            /\ req[r].res.products = <<>>

\* C13: however the chat requests interleave at their awaits, no recency
\* update is lost: the stored history of every session is the last 15 of all
\* the identifiers the requests of that session selected, in the order in
\* which their extractProducts calls ran.
C13_NoLostUpdate ==
    /\ DOMAIN recorded = {recentRecommendations[i].key :
                             i \in 1..Len(recentRecommendations)}
    /\ \A i \in 1..Len(recentRecommendations) :
           recentRecommendations[i].value
               = sliceLast(recorded[recentRecommendations[i].key], MaxRecent)

\* a request that arrived before any extractProducts call and whose own call
\* came second, on a session whose history the first call had filled
C13_Witness ==
    \E r \in DOMAIN req :
        /\ req[r].pc = "done"
        /\ req[r].res.status = 200
        /\ req[r].res.products # <<>>
        /\ req[r].callsAtArrival = 0
        /\ calls = 2
        /\ lastResolve.recent # <<>>
        /\ \E i \in 1..Len(recentRecommendations) :
               /\ recentRecommendations[i].key = lastResolve.sessionId
               /\ Len(recentRecommendations[i].value)
                      = Len(lastResolve.recent) + Len(req[r].res.products)

\* the step is an extractProducts call
isResolveStep == calls' = calls + 1

\* C14 as stated: an extractProducts call for one session leaves the entry
\* of every other stored session in the Map, with the history it had.
C14_OtherSessionsUntouched ==
    [][isResolveStep =>
          \A i \in 1..Len(recentRecommendations) :
              recentRecommendations[i].key # lastResolve'.sessionId =>
                  \/ /\ i <= Len(recentRecommendations')
                     /\ recentRecommendations'[i] = recentRecommendations[i]
                  \/ \E j \in 1..Len(recentRecommendations') :
                         recentRecommendations'[j] = recentRecommendations[i]]_vars

\* C14, amended: an extractProducts call for one session leaves the entry of
\* every other stored session as it was, except that a call which brings the
\* Map above 1000 sessions removes the entries older than the newest 500;
\* every other session that stays keeps its history and its order.
C14_OtherSessionsUntouchedUnlessEvicted ==
    [][isResolveStep =>
          LET n == Len(lastResolve'.afterSet) IN
          \A i \in 1..Len(recentRecommendations) :
              recentRecommendations[i].key # lastResolve'.sessionId =>
                  IF n <= MaxSessions
                  THEN /\ i <= Len(recentRecommendations')
                       /\ recentRecommendations'[i] = recentRecommendations[i]
                  ELSE \/ i <= n - KeptSessions
                       \/ recentRecommendations'[i - (n - KeptSessions)]
                              = recentRecommendations[i]]_vars

\* a call that recorded identifiers for its own session and evicted, with
\* another session's non-empty history among the entries that stayed
C14_Witness ==
    /\ lastResolve.called
    /\ lastResolve.recommended # <<>>
    /\ Len(lastResolve.afterSet) > MaxSessions
    /\ \E i \in 1..Len(recentRecommendations) :
           /\ recentRecommendations[i].key # lastResolve.sessionId
           /\ recentRecommendations[i].value # <<>>

\* C16: for an intent with no species, category, hints, modifiers, brand
\* keywords and exclude terms, the ranked list holds exactly the in-stock
\* products of the catalog, each scoring 3, and no out-of-stock product, each
\* scoring 0.
C16_EmptyIntentKeepsInStock ==
    (rankPc = "done" /\ searchTerms = emptyTerms) =>
        /\ \A j \in 1..Len(products) :
              IF products[j].availableForSale
              THEN /\ filterScore(products[j], searchTerms) = 3
                   /\ \E i \in 1..Len(filtered) : filtered[i] = products[j]
              ELSE /\ filterScore(products[j], searchTerms) = 0
                   /\ \A i \in 1..Len(filtered) : filtered[i] # products[j]
        /\ \A i \in 1..Len(filtered) : \E j \in 1..Len(products) : products[j] = filtered[i]
        /\ Len(filtered) = Cardinality({j \in 1..Len(products) : products[j].availableForSale})

\* an empty intent ranked over a catalog of one in-stock and one out-of-stock
\* product
C16_Witness ==
    /\ rankPc = "done"
    /\ searchTerms = emptyTerms
    /\ Len(products) = 2
    /\ Len(filtered) = 1
    /\ \E j \in 1..Len(products) : ~products[j].availableForSale

\* C17: for the message "kedi mamasi, tavuksuz" and a catalog holding the
\* in-stock cat foods "Chicken Cat Food" and "Fish Cat Food" (category "cat",
\* tag "food"), the ranked list leaves out the chicken product and holds the
\* fish product.
C17_ChickenOutFishIn ==
    (/\ rankPc = "done"
     /\ message = W_kedi_mamasI_comma_tavuksuz
     /\ \E j \in 1..Len(products) : products[j] = pChicken
     /\ \E j \in 1..Len(products) : products[j] = pFish)
        => /\ \A i \in 1..Len(filtered) : filtered[i] # pChicken
           /\ \E i \in 1..Len(filtered) : filtered[i] = pFish

----------------------------------------------------------------------------
(* diversifyProducts and shuffleArray (src/unnamed/part_002:481-515), the   *)
(* step smartFilter ends with in that version of the server (line 429).     *)

\* longest list handed to diversifyProducts
MaxDiversifyLen == 15
\* Math.random() takes the values k / RandomSteps, k in 0..RandomSteps-1
RandomSteps == 4
\* a shuffleArray call draws the values (seed + n) / RandomSteps, n = 0, 1, ...
MaxSeed == 3

DiversifyLimit == 12
PerBucket == 4

\* parseFloat of a decimal string, in hundredths (two decimals are kept)
parseFloat(s) ==
    LET n     == runLen(s, 1, isDigit)
        whole == parseInt(SubSeq(s, 1, n))
        m     == IF n + 1 <= Len(s) /\ s[n + 1] = "."
                 THEN runLen(s, n + 2, isDigit) ELSE 0
        frac  == sliceFirst(SubSeq(s, n + 2, n + 1 + m) \o <<"0", "0">>, 2)
    IN  100 * whole + parseInt(frac)

\* parseFloat(p.priceRange.minVariantPrice.amount)
priceOf(p) == parseFloat(p.amount)

\* Array.prototype.sort with the comparator priceA - priceB: a stable sort,
\* ascending by price
RECURSIVE insertByPrice(_, _)
insertByPrice(sorted, p) ==
    IF Len(sorted) = 0 THEN <<p>>
    ELSE IF priceOf(sorted[Len(sorted)]) <= priceOf(p) THEN Append(sorted, p)
    ELSE Append(insertByPrice(SubSeq(sorted, 1, Len(sorted) - 1), p), sorted[Len(sorted)])

\* the list left in the order it came in
sortByPriceSkipped(arr) == arr

RECURSIVE sortByPrice(_)
sortByPrice(arr) ==
    IF Len(arr) = 0 THEN <<>>
    ELSE insertByPrice(sortByPrice(SubSeq(arr, 1, Len(arr) - 1)), arr[Len(arr)])

\* Math.floor(Math.random() * (i + 1)) for the n-th draw of a call, as a
\* position 1..i of the array (i counted from 1)
randomIndex(seed, n, i) == ((((seed + n) % RandomSteps) * i) \div RandomSteps) + 1

\* the loop of shuffleArray from position i down to 2
RECURSIVE shuffleFrom(_, _, _, _)
shuffleFrom(shuffled, i, seed, n) ==
    IF i < 2 THEN shuffled
    ELSE LET j == randomIndex(seed, n, i)
             swapped == [shuffled EXCEPT ![i] = shuffled[j], ![j] = shuffled[i]]
         IN  shuffleFrom(swapped, i - 1, seed, n + 1)

shuffleArray(array, seed) == shuffleFrom(array, Len(array), seed, 0)

\* diversifyProducts with its locals; seeds are those of its four shuffles
diversifyProducts(prods, seeds) ==
    IF Len(prods) <= DiversifyLimit
    THEN [cheap |-> <<>>, mid |-> <<>>, expensive |-> <<>>, result |-> prods]
    ELSE LET sorted    == sortByPrice(prods)
             third     == Len(sorted) \div 3
             cheap     == SubSeq(sorted, 1, third)
             mid       == SubSeq(sorted, third + 1, third * 2)
             expensive == SubSeq(sorted, third * 2 + 1, Len(sorted))
             diversified ==
                 sliceFirst(shuffleArray(cheap, seeds[1]), PerBucket)
                 \o sliceFirst(shuffleArray(mid, seeds[2]), PerBucket)
                 \o sliceFirst(shuffleArray(expensive, seeds[3]), PerBucket)
         IN  [cheap |-> cheap, mid |-> mid, expensive |-> expensive,
              result |-> shuffleArray(diversified, seeds[4])]

\* amounts as the shop states them
amounts == <<W_n25, W_n9_dot_90, W_n100_dot_00, W_n10_dot_5, W_n5, W_n10, W_n7_dot_25, W_n9_dot_90, W_n250, W_n10_dot_50>>

\* the lists given to diversifyProducts: distinct products, prices in
\* ascending order (kind 1) or mixed, with ties (kind 2)
rankedList(n, kind) ==
    [i \in 1..n |->
        [id |-> i,
         amount |-> IF kind = 1
                    THEN <<Digits[(i \div 10) + 1], Digits[(i % 10) + 1]>> \o W__dot_50
                    ELSE amounts[((i * 3) % Len(amounts)) + 1]]]

DiversifyInputs ==
    {rankedList(n, kind) : n \in (MaxDiversifyLen - 4)..MaxDiversifyLen, kind \in {1, 2}}

InitDiversify ==
    /\ idleRank
    /\ idleChat
    /\ recentRecommendations = <<>>
    /\ recorded = <<>>
    /\ lastResolve = noResolve
    /\ calls = 0
    /\ \E prods \in DiversifyInputs :
           diversify = [pc |-> "call", products |-> prods, cheap |-> <<>>, mid |-> <<>>,
                        expensive |-> <<>>, result |-> <<>>]

\* return diversifyProducts(filtered)                 (part_002:429, 481-506)
Diversify ==
    /\ diversify.pc = "call"
    /\ \E seeds \in [1..4 -> 0..MaxSeed] :
           \E d \in {diversifyProducts(diversify.products, seeds)} :
               diversify' = [pc |-> "done", products |-> diversify.products,
                             cheap |-> d.cheap, mid |-> d.mid,
                             expensive |-> d.expensive, result |-> d.result]
    /\ UNCHANGED <<rankVars, resolveVars, chatVars>>

NextDiversify == Diversify

SpecDiversify == InitDiversify /\ [][NextDiversify]_vars

\* the positions of a list whose product is in a bucket
drawnFrom(result, bucket) ==
    {i \in 1..Len(result) : \E k \in 1..Len(bucket) : bucket[k] = result[i]}

\* C18: diversifyProducts returns a list of at most 12 products as it is;
\* from a longer list it returns exactly 12 pairwise distinct products of
\* the list, 4 from each of the buckets cheap, mid and expensive, and the
\* three buckets partition the list with every cheap price <= every mid
\* price <= every expensive price.
C18_DiversifyBuckets ==
    diversify.pc = "done" =>
        LET prods     == diversify.products
            result    == diversify.result
            cheap     == diversify.cheap
            mid       == diversify.mid
            expensive == diversify.expensive
            buckets   == cheap \o mid \o expensive
        IN  IF Len(prods) <= 12
            THEN result = prods
            ELSE /\ Len(result) = 12
                 /\ \A i, j \in 1..Len(result) : i # j => result[i] # result[j]
                 /\ \A i \in 1..Len(result) : \E j \in 1..Len(prods) : prods[j] = result[i]
                 /\ Cardinality(drawnFrom(result, cheap)) = 4
                 /\ Cardinality(drawnFrom(result, mid)) = 4
                 /\ Cardinality(drawnFrom(result, expensive)) = 4
                 /\ Len(buckets) = Len(prods)
                 /\ \A j \in 1..Len(prods) :
                        Cardinality({k \in 1..Len(buckets) : buckets[k] = prods[j]}) = 1
                 /\ \A c \in 1..Len(cheap), m \in 1..Len(mid) :
                        priceOf(cheap[c]) <= priceOf(mid[m])
                 /\ \A m \in 1..Len(mid), e \in 1..Len(expensive) :
                        priceOf(mid[m]) <= priceOf(expensive[e])

\* a call on a list with mixed prices whose expensive bucket holds more than
\* the 4 products taken from it, returning another order than the price order
C18_Witness ==
    /\ diversify.pc = "done"
    /\ Len(diversify.products) > 12
    /\ Len(diversify.expensive) > 4
    /\ \E i, j \in 1..Len(diversify.products) :
           i < j /\ priceOf(diversify.products[i]) > priceOf(diversify.products[j])
    /\ \E i, j \in 1..Len(diversify.result) :
           i < j /\ priceOf(diversify.result[i]) > priceOf(diversify.result[j])

----------------------------------------------------------------------------
(* Claims about extract (buildSearchTerms), checked under SpecRank.         *)

\* C19: in the intent extracted from any message no token is both a brand
\* keyword and an exclude term.
C19_BrandExcludeDisjoint ==
    rankPc # "extract" =>
        \A b \in 1..Len(searchTerms.brandKeywords) :
            \A e \in 1..Len(searchTerms.exclude) :
                searchTerms.brandKeywords[b] # searchTerms.exclude[e]

\* C20: once a message's intent is extracted, translating every exclude term
\* with getTranslations adds nothing to the exclude list (the message
\* "chicken yok" has the base term "chicken").
C20_ExcludeClosed ==
    rankPc # "extract" =>
        \A e \in 1..Len(searchTerms.exclude) :
            \A t \in 1..Len(getTranslations(searchTerms.exclude[e])) :
                \E x \in 1..Len(searchTerms.exclude) :
                    searchTerms.exclude[x] = getTranslations(searchTerms.exclude[e])[t]

\* C21: in the intent extracted from a message, every word of at least 3
\* letters other than "icerik" that follows a quantity word and white space
\* is an exclude term, and so is each of its translations.
C21_LowQuantityExcluded ==
    rankPc # "extract" =>
        LET msg == toLowerCase(message) IN
        \A i \in 1..Len(msg) :
            anyOccursAt(msg, lowWords, i) =>
                LET j == i + Len(firstOccurringAt(msg, lowWords, i))
                    k == runLen(msg, j, isSpace)
                    n == runLen(msg, j + k, isWordChar)
                    w == SubSeq(msg, j + k, j + k + n - 1)
                IN  (k >= 1 /\ n >= 3 /\ w # W_iCerik /\ w # W_icerik) =>
                        /\ arrIncludes(searchTerms.exclude, w)
                        /\ \A t \in 1..Len(getTranslations(w)) :
                               arrIncludes(searchTerms.exclude, getTranslations(w)[t])

\* C22: the exclude list of the intent extracted from any message holds no
\* term twice.
C22_ExcludeNoDuplicates ==
    rankPc # "extract" =>
        \A i, j \in 1..Len(searchTerms.exclude) :
            searchTerms.exclude[i] = searchTerms.exclude[j] => i = j

----------------------------------------------------------------------------
(* Claims about the catalog cache and the chat handler, checked under       *)
(* SpecChat.                                                                *)

\* C23: the products a chat request ranked and forwards to the language
\* model are products of the catalog of that request's shopDomain.
C23_OwnShopCatalog ==
    \A r \in 1..MaxRequests :
        req[r].pc = "awaitAI" =>
            \A i \in 1..Len(req[r].productsForAI) :
                \E p \in 1..Len(shopPages(req[r].shopDomain)) :
                    \E k \in 1..Len(shopPages(req[r].shopDomain)[p]) :
                        normalizeOne(shopPages(req[r].shopDomain)[p][k])
                            = req[r].productsForAI[i]

\* C24: a valid chat request sends a catalog request exactly when, at its
\* cache test, the cache is empty or at least 5 minutes old, and otherwise
\* ranks the cached list without any catalog request; the first valid chat
\* request to arrive after a clear-cache sends one.
C24_FetchIffStale ==
    [][\A r \in 1..MaxRequests :
           (req[r].pc = "new" /\ req'[r].pc # "new" /\ req'[r].extracted) =>
               /\ (req'[r].pc = "awaitPage")
                      <=> (productCache.isNull \/ now - cacheTime >= CACHE_DURATION)
               /\ req'[r].pc # "awaitPage" =>
                      (req'[r].pageCount = 0 /\ req'[r].ranked # "no")
               /\ cleared => req'[r].pc = "awaitPage"]_vars

\* C25: productCache and cacheTime are always both null or both set; the
\* cache is stored only by a request that leaves its pagination loop without
\* a failure, as the normalized list of the pages it fetched stamped with
\* the current time; a request whose fetch fails on a page leaves both
\* variables unchanged.
C25_CacheStoredOnSuccessOnly ==
    [][/\ productCache.isNull <=> cacheTime = 0
       /\ productCache'.isNull <=> cacheTime' = 0
       /\ (~productCache'.isNull /\ <<productCache, cacheTime>>' # <<productCache, cacheTime>>) =>
              \E r \in 1..MaxRequests :
                  /\ req[r].pc \in {"awaitPage", "awaitDelay"}
                  /\ req'[r].ranked # "no"
                  /\ req'[r].res.status # 500
                  /\ productCache'.value = normalize(req'[r].allShopifyProducts)
                  /\ cacheTime' = now
       /\ \A r \in 1..MaxRequests :
              (req[r].pc = "awaitPage" /\ req'[r].res.status = 500) =>
                  UNCHANGED <<productCache, cacheTime>>]_vars

\* a request failed on its second page while the cache held the list another
\* request had stored, and the cache still holds that list
C25_Witness ==
    \E r \in 1..MaxRequests :
        /\ req[r].pc = "done"
        /\ req[r].res.status = 500
        /\ req[r].pageCount = 2
        /\ Len(req[r].allShopifyProducts) > 0
        /\ ~productCache.isNull
        /\ cacheTime # 0
        /\ productCache.value # normalize(req[r].allShopifyProducts)

----------------------------------------------------------------------------
(* The pagination loop against a shop whose every page holds a product and  *)
(* names a next page (index.js:45-100), and the request that follows it.    *)

\* chat requests in one run against the paginated shops, one after another
MaxPagingRequests == 1

\* (message, shopDomain, x-session-id): the endless shop, the two-page shop
\* and a request without shop domain
PagingInputs ==
    {<<W_merhaba, EndlessShop, 0>>, <<W_merhaba, TwoPageShop, 0>>, <<W_merhaba, 0, 0>>}

\* a reply naming the first and the thirteenth product of the endless shop
replyPaging == W_T_mama_01_ya_da_T_mama_13
PagingReplies == {replyNone, replyPaging}

InitPaging ==
    /\ idleRank
    /\ idleDiversify
    /\ recentRecommendations = <<>>
    /\ recorded = <<>>
    /\ lastResolve = noResolve
    /\ calls = 0
    /\ productCache = [isNull |-> TRUE, value |-> <<>>]
    /\ cacheTime = 0
    /\ now = 1
    /\ req = [r \in 1..MaxPagingRequests |-> newRequest]
    /\ cleared = FALSE

\* the client sends a request once the previous one is answered
NextPaging ==
    \/ \E r \in DOMAIN req : \E in \in PagingInputs :
           /\ \A o \in DOMAIN req : req[o].pc \in {"new", "closed"}
           /\ ChatStart(r, in)
    \/ \E r \in DOMAIN req : \E outcome \in ShopifyOutcomes : PageResponse(r, outcome)
    \/ \E r \in DOMAIN req : DelayDone(r)
    \/ \E r \in DOMAIN req : \E outcome \in OpenAIOutcomes : \E reply \in PagingReplies :
           AIResponse(r, outcome, reply)
    \/ \E r \in DOMAIN req : Return(r)

SpecPaging == InitPaging /\ [][NextPaging]_vars

\* C26: every product of a successful chat response is one of the products
\* the request forwarded to the language model, these are the first 12 of
\* the list it ranked, and the filter score of each for the request's message
\* is strictly positive.
C26_ResponseFromForwarded ==
    \A r \in DOMAIN req :
        (req[r].pc = "done" /\ req[r].res.status = 200 /\ req[r].ranked = "some") =>
            /\ Len(req[r].productsForAI)
                   = (IF Len(req[r].filteredProducts) < 12
                      THEN Len(req[r].filteredProducts) ELSE 12)
            /\ \A j \in 1..Len(req[r].productsForAI) :
                   /\ req[r].productsForAI[j] = req[r].filteredProducts[j]
                   /\ filterScore(req[r].productsForAI[j],
                                  buildSearchTerms(req[r].message)) > 0
            /\ \A i \in 1..Len(req[r].res.products) :
                   \E j \in 1..Len(req[r].productsForAI) :
                       isCandidate(req[r].res.products[i], req[r].productsForAI[j])

\* a successful response with a product, to a request whose ranked list was
\* longer than 12 and whose reply also names the thirteenth product
C26_Witness ==
    \E r \in DOMAIN req :
        /\ req[r].pc = "done" /\ req[r].res.status = 200
        /\ Len(req[r].res.products) > 0
        /\ Len(req[r].productsForAI) = 12
        /\ Len(req[r].filteredProducts) > 12
        /\ includes(req[r].res.reply, req[r].filteredProducts[13].title)

\* C27: the session map changes only in the step in which a chat request
\* receives the language model's reply and answers with status 200; a step
\* that ends a request with the validation error, the no-results fallback or
\* an error response leaves the map unchanged.
C27_MapChangesOnlyInResolver ==
    [][/\ recentRecommendations' # recentRecommendations =>
              \E r \in 1..MaxRequests :
                  /\ req[r].pc = "awaitAI"
                  /\ req'[r].pc = "done"
                  /\ req'[r].res.status = 200
                  /\ req'[r].ranked = "some"
       /\ \A r \in 1..MaxRequests :
              (/\ req[r].pc # "done"
               /\ req'[r].pc = "done"
               /\ \/ req'[r].res.status \in {400, 500}
                  \/ req'[r].ranked = "empty") =>
                  recentRecommendations' = recentRecommendations]_vars

\* a request ended with an error after its language-model call while the map
\* held a session with a recorded history
C27_Witness ==
    /\ \E r \in 1..MaxRequests :
           req[r].pc = "done" /\ req[r].res.status = 500 /\ req[r].llmCalls = 1
    /\ \E i \in 1..Len(recentRecommendations) : recentRecommendations[i].value # <<>>

----------------------------------------------------------------------------
(* A claim about the eviction of extractProducts, checked under SpecEvict.  *)

\* C28: after an extractProducts call the Map holds the call's session, and
\* its history is the last 15 of the history read followed by the handles
\* returned, also when the call evicted the oldest sessions.
C28_OwnSessionSurvives ==
    lastResolve.called =>
        LET all == lastResolve.recent
                   \o [k \in 1..Len(lastResolve.recommended) |->
                           lastResolve.recommended[k].handle]
        IN  \E i \in 1..Len(recentRecommendations) :
                /\ recentRecommendations[i].key = lastResolve.sessionId
                /\ Len(recentRecommendations[i].value)
                       = (IF Len(all) < 15 THEN Len(all) ELSE 15)
                /\ \A k \in 1..Len(recentRecommendations[i].value) :
                       recentRecommendations[i].value[k]
                           = all[Len(all) - Len(recentRecommendations[i].value) + k]

\* a call for a new session that brought the Map to 1001 entries, evicted,
\* and left its session as the newest entry with the handles it returned
C28_Witness ==
    /\ lastResolve.called
    /\ Len(lastResolve.afterSet) = 1001
    /\ Len(recentRecommendations) = 500
    /\ recentRecommendations[500].key = lastResolve.sessionId
    /\ recentRecommendations[500].value # <<>>

\* the paginated requests when every provider call returns or fails, every
\* timer fires and every handler runs to its end
SpecPagingFair ==
    /\ InitPaging
    /\ [][NextPaging]_vars
    /\ \A r \in 1..MaxPagingRequests :
           /\ WF_vars(\E outcome \in ShopifyOutcomes : PageResponse(r, outcome))
           /\ WF_vars(DelayDone(r))
           /\ WF_vars(\E outcome \in OpenAIOutcomes : \E reply \in PagingReplies :
                          AIResponse(r, outcome, reply))
           /\ WF_vars(Return(r))

\* C29: a chat request is never answered twice, it is unanswered while it
\* waits for a provider, its answer is the validation error with status 400,
\* the no-results fallback, a reply with products, or an error with status
\* 500, and every request that arrived is eventually answered.
C29_ExactlyOneResponse ==
    /\ [](\A r \in 1..MaxPagingRequests :
             /\ req[r].responses <= 1
             /\ req[r].pc \in {"new", "awaitPage", "awaitDelay", "awaitAI"} =>
                    req[r].responses = 0
             /\ req[r].pc = "done" =>
                    /\ req[r].responses = 1
                    /\ \/ /\ req[r].res.status = 400
                          /\ req[r].res.reply = validationReply
                          /\ ~req[r].extracted
                       \/ /\ req[r].res.status = 200
                          /\ req[r].ranked = "empty"
                          /\ req[r].res.reply = fallbackReply
                          /\ req[r].res.products = <<>>
                       \/ /\ req[r].res.status = 200
                          /\ req[r].ranked = "some"
                          /\ req[r].res.fields = {"reply", "products"}
                       \/ /\ req[r].res.status = 500
                          /\ req[r].res.fields = {"error", "reply"})
    /\ \A r \in 1..MaxPagingRequests :
           (req[r].pc # "new") ~> (req[r].responses = 1)

\* a request answered with products after its loop fetched all 20 pages
C29_Witness ==
    \E r \in 1..MaxPagingRequests :
        /\ req[r].pc = "done"
        /\ req[r].responses = 1
        /\ req[r].pageCount = 20
        /\ req[r].res.status = 200
        /\ req[r].res.products # <<>>

\* C30: one request sends at most 20 page requests; a further page is
\* requested only after a page that was not empty and carried a next link,
\* and only while fewer than 20 were sent; a response reporting errors ends
\* the request; and a request that is fetching eventually stops fetching.
C30_LoopTerminates ==
    /\ [](\A r \in 1..MaxPagingRequests : req[r].pageCount <= 20)
    /\ [][\A r \in 1..MaxPagingRequests :
             /\ (req[r].pc = "awaitPage" /\ req'[r].pc = "awaitDelay") =>
                    /\ shopPage(req[r].shopDomain, req[r].pageCount).products # <<>>
                    /\ shopPage(req[r].shopDomain, req[r].pageCount).hasNext
                    /\ req'[r].pageCount = req[r].pageCount
             /\ (req[r].pc = "awaitPage" /\ req'[r].pc = "awaitPage") =>
                    req'[r] = req[r]
             /\ (req[r].pc = "awaitDelay" /\ req'[r].pc = "awaitPage") =>
                    /\ req[r].pageCount < 20
                    /\ req'[r].pageCount = req[r].pageCount + 1
             /\ (req[r].pc = "awaitPage" /\ req'[r].pc = "done"
                    /\ req'[r].res.status = 500) =>
                    req'[r].pageCount = req[r].pageCount
             /\ req'[r].pc = "awaitPage" =>
                    req[r].pc \in {"new", "awaitDelay", "awaitPage"}]_vars
    /\ \A r \in 1..MaxPagingRequests :
           (req[r].pc \in {"awaitPage", "awaitDelay"}) ~>
               (req[r].pc \notin {"awaitPage", "awaitDelay"})

\* the loop left after 20 pages that were all non-empty and advertised a next
\* page: the 20 products went on to the language model
C30_Witness ==
    \E r \in 1..MaxPagingRequests :
        /\ req[r].pc = "awaitAI"
        /\ req[r].shopDomain = EndlessShop
        /\ req[r].pageCount = 20
        /\ Len(req[r].allShopifyProducts) = 20

====
